---- MODULE Spec2Model ----
(***************************************************************************)
(* State-machine model of the Twitch IRC MCP server:                       *)
(*   - MessageStore   (lib/messageStore.ts, src/unnamed/part_005:1-198)    *)
(*   - TwitchClient   (lib/twitchClient.ts, src/unnamed/part_004)          *)
(*   - MCP tools      (lib/mcpServer.ts,    src/unnamed/part_005:199-519)  *)
(*                                                                         *)
(* JavaScript strings are sequences of one-character strings, so that      *)
(* toLowerCase, includes and replace are computed and not assumed.         *)
(* An optional value is a sequence of length <= 1 (<<>> is undefined).     *)
(***************************************************************************)
EXTENDS Integers, Sequences, FiniteSets, TLC

VARIABLES
  messages,           \* MessageStore.messages: the Map channel -> Message[]
  arrivals,           \* history: per channel, every message added since its last clear
  nextId,             \* number of messages created so far, plus one
  result,             \* what the last direct MessageStore call returned, with its arguments
  connected,          \* TwitchClient.connected
  reconnectAttempts,  \* TwitchClient.reconnectAttempts
  channels,           \* TwitchClient.channels
  timers,             \* pending setTimeout callbacks of the 'disconnected' handler
  link,               \* the transport's session: closed, connecting, open, closing
  timerConnects,      \* client.connect() promises pending for reconnect timers
  drops,              \* history: 'disconnected' events since the last 'connected' event
  lastConnect,        \* history: whether the last connect() call reached the transport
  password,           \* identity.password in the options the tmi.Client was built with
  phase,              \* where the process is: init, connecting, starting, serving, stopping, exited
  requests,           \* client.say / client.join promises pending, with the tool call awaiting each
  lastCall            \* the last tool call that settled: its outcome and what the handler returned

storeVars == <<messages, arrivals, nextId>>
clientVars == <<connected, reconnectAttempts, channels, timers>>
transportVars == <<link, timerConnects, drops, lastConnect, password>>
toolVars == <<requests, lastCall>>
vars == <<messages, arrivals, nextId, result, connected, reconnectAttempts, channels,
          timers, link, timerConnects, drops, lastConnect, password, phase, requests,
          lastCall>>

\* ------------------------------------------------------------------ bounds

\* MessageStore constructor argument (default 1000), kept small here
maxMessagesPerChannel == 2
\* total number of addMessage calls explored
MaxAdds == 3
\* addMessage calls explored where two channels are filled side by side
MaxIsolated == 4
\* chat messages the transport delivers in a run of the server
MaxEvents == 1
\* reconnect timers pending at once
MaxTimers == 1
\* transport requests (say, join) pending at once
MaxCalls == 1

\* TwitchClient.maxReconnectAttempts
maxReconnectAttempts == 5
\* largest limit passed to getRecentMessages
MaxLimit == 3
\* largest pageSize the pagination claim is checked for
MaxPageSize == 2

\* ------------------------------------------------------- JavaScript values

None == <<>>
Some(x) == <<x>>
IsSome(o) == Len(o) > 0
Val(o) == o[1]

Min(a, b) == IF a < b THEN a ELSE b
Max(a, b) == IF a > b THEN a ELSE b

\* String.prototype.toLowerCase, one character
LowerChar(c) ==
  CASE c = "A" -> "a"
    [] c = "B" -> "b"
    [] c = "F" -> "f"
    [] c = "H" -> "h"
    [] c = "I" -> "i"
    [] c = "N" -> "n"
    [] OTHER -> c

toLowerCase(s) == [i \in 1..Len(s) |-> LowerChar(s[i])]

\* String.prototype.includes
includes(s, sub) ==
  \E i \in 0..(Len(s) - Len(sub)) : SubSeq(s, i + 1, i + Len(sub)) = sub

\* truthiness of an optional string: undefined and "" are falsy
Truthy(o) == IsSome(o) /\ Len(Val(o)) > 0

\* Array.prototype.slice(start, end) with JavaScript's index clamping
jsSlice(arr, start, end) ==
  LET n == Len(arr)
      from == IF start < 0 THEN Max(n + start, 0) ELSE Min(start, n)
      to == IF end < 0 THEN Max(n + end, 0) ELSE Min(end, n)
  IN SubSeq(arr, from + 1, to)

\* Array.prototype.splice(0, count): what is left in the array
spliceFront(arr, count) == SubSeq(arr, count + 1, Len(arr))

\* A Date is [valid, t]; new Date(<unparsable>) is the Invalid Date (time NaN).
\* Every comparison with NaN is false.
InvalidDate == [valid |-> FALSE, t |-> 0]
DateOf(t) == [valid |-> TRUE, t |-> t]

\* new Date(string): a timestamp-like string parses to its time, any other
\* string to the Invalid Date
parseDate(str) == IF str.kind = "iso" THEN DateOf(str.t) ELSE InvalidDate

\* msg.timestamp >= date   and   msg.timestamp <= date
tsGE(t, date) == date.valid /\ t >= date.t
tsLE(t, date) == date.valid /\ t <= date.t

\* a sort that puts a message before the messages of equal timestamp already placed
RECURSIVE insertByTsBefore(_, _)
insertByTsBefore(sorted, m) ==
  IF sorted = <<>> THEN <<m>>
  ELSE IF sorted[Len(sorted)].timestamp < m.timestamp THEN Append(sorted, m)
  ELSE Append(insertByTsBefore(SubSeq(sorted, 1, Len(sorted) - 1), m), sorted[Len(sorted)])

\* Array.prototype.sort((a, b) => a.timestamp - b.timestamp): stable
RECURSIVE insertByTs(_, _)
insertByTs(sorted, m) ==
  IF sorted = <<>> THEN <<m>>
  ELSE IF sorted[Len(sorted)].timestamp <= m.timestamp THEN Append(sorted, m)
  ELSE Append(insertByTs(SubSeq(sorted, 1, Len(sorted) - 1), m), sorted[Len(sorted)])

RECURSIVE sortByTs(_)
sortByTs(arr) ==
  IF arr = <<>> THEN <<>>
  ELSE insertByTs(sortByTs(SubSeq(arr, 1, Len(arr) - 1)), arr[Len(arr)])

RECURSIVE flat(_)
flat(arrs) == IF arrs = <<>> THEN <<>> ELSE Head(arrs) \o flat(Tail(arrs))

\* ------------------------------------------------------------ MessageStore

\* this.messages: a Map, kept as its entries [k, v] in insertion order
mapHas(map, k) == \E i \in 1..Len(map) : map[i].k = k
mapIdx(map, k) == CHOOSE i \in 1..Len(map) : map[i].k = k
mapGet(map, k) == IF mapHas(map, k) THEN Some(map[mapIdx(map, k)].v) ELSE None
mapSet(map, k, v) ==
  IF mapHas(map, k) THEN [map EXCEPT ![mapIdx(map, k)].v = v]
  ELSE Append(map, [k |-> k, v |-> v])
mapDelete(map, k) == SelectSeq(map, LAMBDA e : e.k # k)
mapValues(map) == [i \in 1..Len(map) |-> map[i].v]

\* prune with the comparison off by one: one message too many is tolerated
pruneLate(channelMessages) ==
  IF Len(channelMessages) > maxMessagesPerChannel + 1
  THEN spliceFront(channelMessages, Len(channelMessages) - maxMessagesPerChannel)
  ELSE channelMessages

\* prune cutting at the wrong end: the newest entries are dropped
pruneNewest(channelMessages) ==
  IF Len(channelMessages) > maxMessagesPerChannel
  THEN SubSeq(channelMessages, 1, maxMessagesPerChannel)
  ELSE channelMessages

\* the pruning step of addMessage: drop the oldest excess entries
prune(channelMessages) ==
  IF Len(channelMessages) > maxMessagesPerChannel
  THEN spliceFront(channelMessages, Len(channelMessages) - maxMessagesPerChannel)
  ELSE channelMessages

\* addMessage pruning every history by the excess of the one it pushed to
addMessagePrunesAll(map, message) ==
  LET channel == toLowerCase(message.channel)
      m1 == IF ~mapHas(map, channel) THEN mapSet(map, channel, <<>>) ELSE map
      pushed == Append(Val(mapGet(m1, channel)), message)
      excess == IF Len(pushed) > maxMessagesPerChannel
                THEN Len(pushed) - maxMessagesPerChannel ELSE 0
      m2 == mapSet(m1, channel, pushed)
  IN [i \in 1..Len(m2) |-> [k |-> m2[i].k, v |-> spliceFront(m2[i].v, Min(excess, Len(m2[i].v)))]]

addMessage(map, message) ==
  LET channel == toLowerCase(message.channel)
      m1 == IF ~mapHas(map, channel) THEN mapSet(map, channel, <<>>) ELSE map
      pushed == Append(Val(mapGet(m1, channel)), message)
  IN mapSet(m1, channel, prune(pushed))

\* the lookup falling back to the first stored history instead of []
channelArrayFallback(map, channel) ==
  LET got == mapGet(map, toLowerCase(channel))
  IN IF IsSome(got) THEN Val(got) ELSE IF Len(map) > 0 THEN map[1].v ELSE <<>>

\* this.messages.get(channelLower) || []
channelArray(map, channel) ==
  LET got == mapGet(map, toLowerCase(channel))
  IN IF IsSome(got) THEN Val(got) ELSE <<>>

getRecentMessages(map, channel, limit) ==
  LET channelMessages == channelArray(map, channel)
  IN sortByTs(jsSlice(channelMessages,
                      0 - Min(limit, Len(channelMessages)),
                      Len(channelMessages)))

getAllMessages(map, channel) ==
  IF Truthy(channel) THEN channelArray(map, Val(channel))
  ELSE sortByTs(flat(mapValues(map)))

\* filterCriteria with `since` as an exclusive bound
filterCriteriaExclusive(all, filter) ==
  LET s1 == IF Truthy(filter.username)
            THEN SelectSeq(all, LAMBDA msg :
                   includes(toLowerCase(msg.username), toLowerCase(Val(filter.username))))
            ELSE all
      s2 == IF Truthy(filter.contains)
            THEN SelectSeq(s1, LAMBDA msg :
                   includes(toLowerCase(msg.message), toLowerCase(Val(filter.contains))))
            ELSE s1
      s3 == IF IsSome(filter.since)
            THEN SelectSeq(s2, LAMBDA msg :
                   Val(filter.since).valid /\ msg.timestamp > Val(filter.since).t)
            ELSE s2
      s4 == IF IsSome(filter.until)
            THEN SelectSeq(s3, LAMBDA msg : tsLE(msg.timestamp, Val(filter.until)))
            ELSE s3
  IN s4

\* lines 131-150 of filterMessages: the four criteria, applied in order
filterCriteria(all, filter) ==
  LET s1 == IF Truthy(filter.username)
            THEN SelectSeq(all, LAMBDA msg :
                   includes(toLowerCase(msg.username), toLowerCase(Val(filter.username))))
            ELSE all
      s2 == IF Truthy(filter.contains)
            THEN SelectSeq(s1, LAMBDA msg :
                   includes(toLowerCase(msg.message), toLowerCase(Val(filter.contains))))
            ELSE s1
      s3 == IF IsSome(filter.since)
            THEN SelectSeq(s2, LAMBDA msg : tsGE(msg.timestamp, Val(filter.since)))
            ELSE s2
      s4 == IF IsSome(filter.until)
            THEN SelectSeq(s3, LAMBDA msg : tsLE(msg.timestamp, Val(filter.until)))
            ELSE s3
  IN s4

\* paginate reading `page` as one-based
paginateOneBased(sorted, filter) ==
  IF IsSome(filter.page) /\ IsSome(filter.pageSize)
  THEN LET page == IF Val(filter.page) < 0 THEN 0 ELSE Val(filter.page)
           pageSize == IF Val(filter.pageSize) <= 0 THEN 10 ELSE Val(filter.pageSize)
           start == (page + 1) * pageSize
           end == start + pageSize
       IN jsSlice(sorted, start, end)
  ELSE sorted

\* the pagination without the two clamps
paginateUnclamped(sorted, filter) ==
  IF IsSome(filter.page) /\ IsSome(filter.pageSize)
  THEN LET start == Val(filter.page) * Val(filter.pageSize)
           end == start + Val(filter.pageSize)
       IN jsSlice(sorted, start, end)
  ELSE sorted

\* lines 155-164 of filterMessages: the slice taken when page and pageSize are given
paginate(sorted, filter) ==
  IF IsSome(filter.page) /\ IsSome(filter.pageSize)
  THEN LET page == IF Val(filter.page) < 0 THEN 0 ELSE Val(filter.page)
           pageSize == IF Val(filter.pageSize) <= 0 THEN 10 ELSE Val(filter.pageSize)
           start == page * pageSize
           end == start + pageSize
       IN jsSlice(sorted, start, end)
  ELSE sorted

\* what filterMessages returns
filterMessages(map, filter) ==
  paginate(sortByTs(filterCriteria(getAllMessages(map, filter.channel), filter)), filter)

\* Array.prototype.filter copies, but with no criterion applied `messages` is still
\* the array getAllMessages(channel) returned, which is the channel's own array in
\* the Map: messages.sort(...) on line 153 then sorts the stored history in place.
sortsInPlace(map, filter) ==
  /\ Truthy(filter.channel)
  /\ mapHas(map, toLowerCase(Val(filter.channel)))
  /\ ~Truthy(filter.username)
  /\ ~Truthy(filter.contains)
  /\ ~IsSome(filter.since)
  /\ ~IsSome(filter.until)

\* filterMessages lower-casing the channel field of the messages it sorts in place
filterMessagesStoreRewrites(map, filter) ==
  IF sortsInPlace(map, filter)
  THEN LET sorted == sortByTs(channelArray(map, Val(filter.channel)))
       IN mapSet(map, toLowerCase(Val(filter.channel)),
                 [i \in 1..Len(sorted) |->
                    [sorted[i] EXCEPT !.channel = toLowerCase(sorted[i].channel)]])
  ELSE map

\* the Map after filterMessages has run
filterMessagesStore(map, filter) ==
  IF sortsInPlace(map, filter)
  THEN mapSet(map, toLowerCase(Val(filter.channel)),
              sortByTs(channelArray(map, Val(filter.channel))))
  ELSE map

\* clearMessages ignoring its argument: every history is dropped
clearMessagesAll(map, channel) == <<>>

clearMessages(map, channel) ==
  IF Truthy(channel) THEN mapDelete(map, toLowerCase(Val(channel))) ELSE <<>>

RECURSIVE sumLen(_)
sumLen(arrs) == IF arrs = <<>> THEN 0 ELSE Len(Head(arrs)) + sumLen(Tail(arrs))

getMessageCount(map, channel) ==
  IF Truthy(channel) THEN Len(channelArray(map, Val(channel)))
  ELSE sumLen(mapValues(map))

\* ------------------------------------------------- MessageStore, called directly

\* channel names as callers write them
ChannelNames == {<<"f">>, <<"F">>, <<"b">>}
OptChannels == {None} \cup {Some(c) : c \in ChannelNames} \cup {Some(<<>>)}

\* the messages handed to addMessage: two channels (one also in upper case), user
\* names and texts that differ in case, timestamps that tie and that go backwards
MessagePool ==
  { [channel |-> <<"f">>, username |-> <<"A", "n">>, message |-> <<"h", "i">>, timestamp |-> 2],
    [channel |-> <<"f">>, username |-> <<"b">>,      message |-> <<"H">>,      timestamp |-> 1],
    [channel |-> <<"F">>, username |-> <<"a", "N">>, message |-> <<"H", "i">>, timestamp |-> 3],
    [channel |-> <<"b">>, username |-> <<"b">>,      message |-> <<"h", "i">>, timestamp |-> 2],
    [channel |-> <<"b">>, username |-> <<"A", "n">>, message |-> <<"a", "h">>, timestamp |-> 1] }

Limits == 0..MaxLimit

OptUsernames == {None, Some(<<>>), Some(<<"N">>)}
OptContains == {None, Some(<<"I">>)}
OptSince == {None, Some(DateOf(2)), Some(InvalidDate)}
OptUntil == {None, Some(DateOf(2))}

\* the criteria of a MessageFilter, without its pagination
Criteria ==
  [channel : {None, Some(<<"F">>)}, username : OptUsernames,
   contains : OptContains, since : OptSince, until : OptUntil]

withPage(c, page, pageSize) ==
  [channel |-> c.channel, username |-> c.username, contains |-> c.contains,
   since |-> c.since, until |-> c.until, page |-> page, pageSize |-> pageSize]

noCriteria(channel) ==
  [channel |-> channel, username |-> None, contains |-> None, since |-> None, until |-> None]

\* the filters the FilterMessages action is called with
FilterArgs ==
  LET crit == { noCriteria(None), noCriteria(Some(<<"F">>)),
                [noCriteria(Some(<<"f">>)) EXCEPT !.username = Some(<<"N">>)],
                [noCriteria(None) EXCEPT !.since = Some(InvalidDate)],
                [noCriteria(None) EXCEPT !.username = Some(<<"N">>), !.since = Some(DateOf(2))] }
      pagination == { <<None, None>>, <<Some(1), Some(1)>>, <<Some(0 - 1), Some(0)>> }
  IN { withPage(c, pg[1], pg[2]) : c \in crit, pg \in pagination }

\* the filters FilterSpec calls: one that sorts a stored history in place, a second
\* page, a page and a page size out of range, and two criteria at once
FilterProbes ==
  { withPage(noCriteria(Some(<<"F">>)), None, None),
    withPage(noCriteria(None), Some(1), Some(1)),
    withPage(noCriteria(None), Some(0 - 1), Some(0)),
    withPage([noCriteria(None) EXCEPT !.username = Some(<<"N">>), !.since = Some(DateOf(2))],
             None, None) }

NoResult == [op |-> "none"]

mkMessage(tpl, n) ==
  [id |-> <<"m", n>>, channel |-> tpl.channel, username |-> tpl.username, message |-> tpl.message,
   timestamp |-> tpl.timestamp, tags |-> <<>>]

\* the history variable: what addMessage and clearMessages do to the arrival log
logArrival(log, message) ==
  LET k == toLowerCase(message.channel)
      old == IF mapHas(log, k) THEN Val(mapGet(log, k)) ELSE <<>>
  IN mapSet(log, k, Append(old, message))

otherVars == <<connected, reconnectAttempts, channels, timers, link, timerConnects,
               drops, lastConnect, password, phase, requests, lastCall>>

\* messageStore.addMessage(message) with the next fresh message of the template
Push(tpl) ==
  /\ LET message == mkMessage(tpl, nextId)
     IN /\ messages' = addMessage(messages, message)
        /\ arrivals' = logArrival(arrivals, message)
  /\ nextId' = nextId + 1
  /\ result' = [op |-> "addMessage"]
  /\ UNCHANGED otherVars

AddMessage(tpl) ==
  /\ nextId <= MaxAdds
  /\ Push(tpl)

\* addMessage called until one channel overflows beside another that holds messages
AddIsolated(tpl) ==
  /\ nextId <= MaxIsolated
  /\ Push(tpl)

GetRecentMessages(channel, limit) ==
  /\ result' = [op |-> "getRecentMessages", channel |-> channel, limit |-> limit,
                value |-> getRecentMessages(messages, channel, limit)]
  /\ UNCHANGED <<storeVars, otherVars>>

GetAllMessages(channel) ==
  /\ result' = [op |-> "getAllMessages", channel |-> channel,
                value |-> getAllMessages(messages, channel)]
  /\ UNCHANGED <<storeVars, otherVars>>

FilterMessages(filter) ==
  /\ result' = [op |-> "filterMessages", filter |-> filter,
                value |-> filterMessages(messages, filter)]
  /\ messages' = filterMessagesStore(messages, filter)
  /\ UNCHANGED <<arrivals, nextId, otherVars>>

GetMessageCount(channel) ==
  /\ result' = [op |-> "getMessageCount", channel |-> channel,
                value |-> getMessageCount(messages, channel)]
  /\ UNCHANGED <<storeVars, otherVars>>

ClearMessages(channel) ==
  /\ messages' = clearMessages(messages, channel)
  /\ arrivals' = clearMessages(arrivals, channel)
  /\ result' = [op |-> "clearMessages", channel |-> channel]
  /\ UNCHANGED <<nextId, otherVars>>

\* ------------------------------------------------------------ TwitchClient

\* String.prototype.replace('#', ''): the first '#' is removed, wherever it is
RECURSIVE stripHash(_)
stripHash(str) ==
  IF str = <<>> THEN <<>>
  ELSE IF Head(str) = "#" THEN Tail(str)
  ELSE <<Head(str)>> \o stripHash(Tail(str))

\* channel.toLowerCase().startsWith('#') ? channel : `#${channel}`
channelName(channel) ==
  IF Len(channel) > 0 /\ toLowerCase(channel)[1] = "#" THEN channel ELSE <<"#">> \o channel

\* the fields of the TwitchClient the handlers write
client ==
  [connected |-> connected, reconnectAttempts |-> reconnectAttempts,
   channels |-> channels, timers |-> timers]

setClient(c) ==
  /\ connected' = c.connected
  /\ reconnectAttempts' = c.reconnectAttempts
  /\ channels' = c.channels
  /\ timers' = c.timers

\* client.on('connected')
onConnected(c) == [c EXCEPT !.connected = TRUE, !.reconnectAttempts = 0]

\* both 'disconnected' registrations scheduling: the first handler's body run twice
onDisconnectedTwice(c) ==
  LET once(d) == IF d.reconnectAttempts < maxReconnectAttempts
                 THEN [d EXCEPT !.connected = FALSE,
                                !.reconnectAttempts = d.reconnectAttempts + 1,
                                !.timers = d.timers + 1]
                 ELSE [d EXCEPT !.connected = FALSE]
  IN once(once(c))

\* the first 'disconnected' handler also forgetting the joined channels
onDisconnectedForgetsChannels(c) ==
  IF c.reconnectAttempts < maxReconnectAttempts
  THEN [c EXCEPT !.connected = FALSE,
                 !.reconnectAttempts = c.reconnectAttempts + 1,
                 !.timers = c.timers + 1,
                 !.channels = {}]
  ELSE [c EXCEPT !.connected = FALSE, !.channels = {}]

\* the first 'disconnected' handler without the comparison against the cap
onDisconnectedUncapped(c) ==
  [c EXCEPT !.connected = FALSE,
            !.reconnectAttempts = c.reconnectAttempts + 1,
            !.timers = c.timers + 1]

\* the first 'disconnected' handler with the comparison reconnectAttempts <= cap
onDisconnectedInclusive(c) ==
  IF c.reconnectAttempts <= maxReconnectAttempts
  THEN [c EXCEPT !.connected = FALSE,
                 !.reconnectAttempts = c.reconnectAttempts + 1,
                 !.timers = c.timers + 1]
  ELSE [c EXCEPT !.connected = FALSE]

\* client.on('disconnected'), both registrations: the first sets the fields and may
\* schedule one reconnect timer, the second only logs
onDisconnected(c) ==
  IF c.reconnectAttempts < maxReconnectAttempts
  THEN [c EXCEPT !.connected = FALSE,
                 !.reconnectAttempts = c.reconnectAttempts + 1,
                 !.timers = c.timers + 1]
  ELSE [c EXCEPT !.connected = FALSE]

\* client.on('join') and client.on('part')
onJoin(c, channel, self) ==
  IF self THEN [c EXCEPT !.channels = c.channels \cup {stripHash(channel)}] ELSE c
onPart(c, channel, self) ==
  IF self THEN [c EXCEPT !.channels = c.channels \ {stripHash(channel)}] ELSE c

\* userstate['display-name'] || userstate.username || 'anonymous'
senderName(userstate) ==
  IF Truthy(userstate.displayName) THEN Val(userstate.displayName)
  ELSE IF Truthy(userstate.username) THEN Val(userstate.username)
  ELSE <<"a", "n", "o", "n", "y", "m", "o", "u", "s">>

\* the Message the 'message' handler builds; t is new Date(), n makes the
\* generated id (Date.now() and a random suffix) unique
chatMessage(channel, userstate, text, t, n) ==
  [id |-> IF IsSome(userstate.id) THEN <<"tmi", Val(userstate.id)>> ELSE <<"gen", t, n>>,
   channel |-> stripHash(channel),
   username |-> senderName(userstate),
   message |-> text,
   timestamp |-> t,
   tags |-> userstate]

\* the 'message' handler without its `if (self) return`
onMessageStoresSelf(map, channel, userstate, text, self, t, n) ==
  addMessage(map, chatMessage(channel, userstate, text, t, n))

\* client.on('message'): what it leaves in the MessageStore
onMessage(map, channel, userstate, text, self, t, n) ==
  IF self THEN map ELSE addMessage(map, chatMessage(channel, userstate, text, t, n))

\* connect() without its early return
connectAlways(c) == TRUE

\* connect(): whether it reaches this.client.connect()
connectCallsTransport(c) == ~c.connected

\* disconnect() without its connected check
disconnectAlways(c) == TRUE

\* disconnect(): whether it reaches this.client.disconnect()
disconnectCallsTransport(c) == c.connected

\* sendMessage() without its connected check
sendMessageUnguarded(c) == None

\* sendMessage(): what it throws before it reaches this.client.say(), if anything
sendMessageGuard(c) ==
  IF ~c.connected THEN Some("Not connected to Twitch IRC") ELSE None

\* ------------------------------------------------------------------ MCP tools

\* limit = 10 in the getRecentMessages tool's handler
DefaultLimit == 10

Success(value) == [ok |-> TRUE, value |-> value]
Failure(message) == [ok |-> FALSE, error |-> message]

textBlock(text) == [type |-> "text", text |-> text]
\* a handler's return value without an isError key, and with isError: true
successEnvelope(text) == [content |-> <<textBlock(text)>>, isError |-> None]
errorEnvelope(prefix, message) ==
  [content |-> <<textBlock([is |-> prefix, message |-> message])>>, isError |-> Some(TRUE)]

\* `[${msg.timestamp.toISOString()}] ${msg.username}: ${msg.message}`
formatLine(msg) ==
  [timestamp |-> msg.timestamp, username |-> msg.username, message |-> msg.message]
\* `[${msg.timestamp.toISOString()}] #${msg.channel} ${msg.username}: ${msg.message}`
formatChannelLine(msg) ==
  [timestamp |-> msg.timestamp, channel |-> msg.channel, username |-> msg.username,
   message |-> msg.message]
formatLines(msgs) == [i \in 1..Len(msgs) |-> formatLine(msgs[i])]
formatChannelLines(msgs) == [i \in 1..Len(msgs) |-> formatChannelLine(msgs[i])]

\* how an async handler's promise settles: a value returned, from the try block or
\* from the catch block, resolves it; an exception that leaves the handler rejects it
Resolved(envelope) == [settled |-> "resolved", envelope |-> envelope]
Rejected(message) == [settled |-> "rejected", error |-> message]

\* the sendMessage handler without its try/catch
sendMessageToolNoCatch(args, outcome) ==
  IF outcome.ok
  THEN Resolved(successEnvelope(
         [is |-> "Message sent to channel", channel |-> args.channel, text |-> args.text]))
  ELSE Rejected(outcome.error)

\* the sendMessage handler once twitchClient.sendMessage has settled
sendMessageTool(args, outcome) ==
  IF outcome.ok
  THEN Resolved(successEnvelope(
         [is |-> "Message sent to channel", channel |-> args.channel, text |-> args.text]))
  ELSE Resolved(errorEnvelope("Error sending message", outcome.error))

\* the joinChannel handler once twitchClient.joinChannel has settled
joinChannelTool(args, outcome) ==
  IF outcome.ok
  THEN Resolved(successEnvelope([is |-> "Joined channel", channel |-> args.channel]))
  ELSE Resolved(errorEnvelope("Error joining channel", outcome.error))

\* the getRecentMessages handler; outcome is what messageStore.getRecentMessages did
getRecentMessagesTool(args, outcome) ==
  IF ~outcome.ok THEN Resolved(errorEnvelope("Error getting recent messages", outcome.error))
  ELSE IF Len(outcome.value) = 0
  THEN Resolved(successEnvelope(
         [is |-> "No messages found in channel", channel |-> args.channel]))
  ELSE Resolved(successEnvelope(
         [is |-> "Recent messages from", channel |-> args.channel,
          lines |-> formatLines(outcome.value)]))

\* since ? new Date(since) : undefined
toolDate(str) ==
  IF IsSome(str) /\ Val(str).kind # "empty" THEN Some(parseDate(Val(str))) ELSE None

\* the MessageFilter the filterMessages handler builds from its arguments
toolFilter(args) ==
  [channel |-> args.channel, username |-> args.username, contains |-> args.contains,
   since |-> toolDate(args.since), until |-> toolDate(args.until),
   page |-> args.page, pageSize |-> args.pageSize]

\* the filterMessages handler; outcome is what messageStore.filterMessages did, total
\* is messageStore.getMessageCount(channel) after it
filterMessagesTool(args, outcome, total) ==
  IF ~outcome.ok THEN Resolved(errorEnvelope("Error filtering messages", outcome.error))
  ELSE IF Len(outcome.value) = 0
  THEN Resolved(successEnvelope([is |-> "No messages found matching the filter criteria"]))
  ELSE Resolved(successEnvelope(
         [is |-> "Filtered messages", channel |-> args.channel,
          lines |-> formatChannelLines(outcome.value),
          paginationInfo |->
            IF IsSome(args.page) /\ IsSome(args.pageSize)
            THEN Some([page |-> Val(args.page) + 1, showing |-> Len(outcome.value),
                       of |-> total])
            ELSE None]))

\* the getAllMessages handler without its branch for an empty result
getAllMessagesToolBare(args, outcome) ==
  IF ~outcome.ok THEN Resolved(errorEnvelope("Error getting all messages", outcome.error))
  ELSE Resolved(successEnvelope(
         [is |-> "All messages", channel |-> args.channel,
          lines |-> formatChannelLines(outcome.value)]))

\* the getAllMessages handler; outcome is what messageStore.getAllMessages did
getAllMessagesTool(args, outcome) ==
  IF ~outcome.ok THEN Resolved(errorEnvelope("Error getting all messages", outcome.error))
  ELSE IF Len(outcome.value) = 0
  THEN Resolved(successEnvelope(
         IF Truthy(args.channel)
         THEN [is |-> "No messages found in channel", channel |-> args.channel]
         ELSE [is |-> "No messages found in any channel"]))
  ELSE Resolved(successEnvelope(
         [is |-> "All messages", channel |-> args.channel,
          lines |-> formatChannelLines(outcome.value)]))

\* the getStatus handler; outcome is what isConnected() and getChannels() gave
getStatusTool(outcome) ==
  IF ~outcome.ok THEN Resolved(errorEnvelope("Error getting status", outcome.error))
  ELSE Resolved(successEnvelope(
         [is |-> "Status", connected |-> outcome.value.connected,
          channels |-> outcome.value.channels]))

\* a tool call that has settled: its arguments, whether the operation under it
\* succeeded, and how the handler's promise settled
settledCall(tool, args, outcome, settlement) ==
  [tool |-> tool, args |-> args, ok |-> outcome.ok, settlement |-> settlement]

\* ------------------------------------------------------- the running server

CliPhases == {"cliConnecting", "cliConnected", "cliSending", "cliSent", "cliStopping", "cliDone",
              "cliSkipped"}
Live == phase \in {"connecting", "starting", "serving", "stopping"} \cup CliPhases
Serving == phase \in {"serving", "stopping"}

\* main() -> initMcpServer(): await twitchClient.connect()
Start ==
  /\ phase = "init"
  /\ phase' = "connecting"
  /\ link' = IF connectCallsTransport(client) THEN "connecting" ELSE link
  /\ lastConnect' = IF connectCallsTransport(client) THEN "transport" ELSE "returned"
  /\ UNCHANGED <<storeVars, result, clientVars, timerConnects, drops, password, toolVars>>

\* the transport reports the session established: the 'connected' handler runs, every
\* pending client.connect() resolves, and initMcpServer goes on to register the tools
EvConnected ==
  /\ Live
  /\ link = "connecting"
  /\ link' = "open"
  /\ setClient(onConnected(client))
  /\ drops' = 0
  /\ timerConnects' = 0
  /\ phase' = IF phase = "connecting" THEN "starting"
               ELSE IF phase = "cliConnecting" THEN "cliConnected" ELSE phase
  /\ UNCHANGED <<storeVars, result, lastConnect, password, toolVars>>

\* the same event with initMcpServer going on to register the tools when its
\* connect() was rejected
EvDisconnectedSwallowed ==
  /\ Live
  /\ link \in {"connecting", "open"}
  /\ reconnectAttempts < maxReconnectAttempts => timers < MaxTimers
  /\ link' = "closed"
  /\ setClient(onDisconnected(client))
  /\ drops' = Min(drops + 1, maxReconnectAttempts + 1)
  /\ timerConnects' = 0
  /\ phase' = IF phase = "connecting" THEN "starting"
               ELSE IF phase = "cliConnecting" THEN "exit1" ELSE phase
  /\ UNCHANGED <<storeVars, result, lastConnect, password, toolVars>>

\* the same event with no .catch on the reconnect timer's connect(): the rejection is
\* unhandled and ends the process
EvDisconnectedUncaught ==
  /\ Live
  /\ link \in {"connecting", "open"}
  /\ reconnectAttempts < maxReconnectAttempts => timers < MaxTimers
  /\ link' = "closed"
  /\ setClient(onDisconnected(client))
  /\ drops' = Min(drops + 1, maxReconnectAttempts + 1)
  /\ timerConnects' = 0
  /\ phase' = IF phase \in {"connecting", "cliConnecting"} \/ timerConnects > 0
               THEN "exit1" ELSE phase
  /\ UNCHANGED <<storeVars, result, lastConnect, password, toolVars>>

\* the session drops, or an attempt to establish it fails: the 'disconnected'
\* handlers run and every pending client.connect() rejects. The reconnect timer's
\* rejection is caught and logged; initMcpServer's is rethrown and main() exits 1.
EvDisconnected ==
  /\ Live
  /\ link \in {"connecting", "open"}
  /\ reconnectAttempts < maxReconnectAttempts => timers < MaxTimers
  /\ link' = "closed"
  /\ setClient(onDisconnected(client))
  /\ drops' = Min(drops + 1, maxReconnectAttempts + 1)
  /\ timerConnects' = 0
  /\ phase' = IF phase \in {"connecting", "cliConnecting"} THEN "exit1" ELSE phase
  /\ UNCHANGED <<storeVars, result, lastConnect, password, toolVars>>

\* the transport was built with connection.reconnect = true: it tries again by itself
TransportRetry ==
  /\ phase \in {"starting", "serving", "cliConnected", "cliSending", "cliSent"}
  /\ link = "closed"
  /\ link' = "connecting"
  /\ UNCHANGED <<storeVars, result, clientVars, timerConnects, drops, lastConnect, password, phase,
                 toolVars>>

\* a reconnect timer whose callback calls this.client.connect() itself, past the
\* guard of connect()
TimerFireUnguarded ==
  /\ Live
  /\ timers > 0
  /\ timers' = timers - 1
  /\ link' = "connecting"
  /\ timerConnects' = timerConnects + 1
  /\ lastConnect' = "transport"
  /\ UNCHANGED <<storeVars, result, connected, reconnectAttempts, channels, drops,
                 password, phase, toolVars>>

\* a reconnect timer whose callback does not call connect()
TimerFireSwallowed ==
  /\ Live
  /\ timers > 0
  /\ timers' = timers - 1
  /\ UNCHANGED <<storeVars, result, connected, reconnectAttempts, channels, transportVars,
                 phase, toolVars>>

\* a reconnect timer fires: this.connect().catch(log)
TimerFire ==
  /\ Live
  /\ timers > 0
  /\ timers' = timers - 1
  /\ IF connectCallsTransport(client)
     THEN link' = "connecting" /\ timerConnects' = timerConnects + 1
          /\ lastConnect' = "transport"
     ELSE UNCHANGED <<link, timerConnects>> /\ lastConnect' = "returned"
  /\ UNCHANGED <<storeVars, result, connected, reconnectAttempts, channels, drops,
                 password, phase, toolVars>>

\* await server.connect(transport) returns; the signal handlers are installed
ServerStarted ==
  /\ phase = "starting"
  /\ phase' = "serving"
  /\ UNCHANGED <<storeVars, result, clientVars, transportVars, toolVars>>

\* a signal handler that does not await disconnect()
SignalExitsAtOnce ==
  /\ phase = "serving"
  /\ phase' = "exit0"
  /\ link' = IF disconnectCallsTransport(client) /\ link = "open" THEN "closing" ELSE link
  /\ UNCHANGED <<storeVars, result, clientVars, timerConnects, drops, lastConnect, password, toolVars>>

\* SIGINT or SIGTERM: await twitchClient.disconnect(); process.exit(0)
Signal ==
  /\ phase = "serving"
  /\ IF disconnectCallsTransport(client)
     THEN /\ phase' = "stopping"
          /\ link' = IF link = "open" THEN "closing" ELSE link
     ELSE /\ phase' = "exit0"
          /\ link' = link
  /\ UNCHANGED <<storeVars, result, clientVars, timerConnects, drops, lastConnect, password, toolVars>>

\* the transport closes the session it was asked to close: it emits 'disconnected',
\* client.disconnect() resolves, disconnect() sets connected = false and the signal
\* handler exits
CloseCompleted ==
  /\ phase = "stopping"
  /\ link = "closing"
  /\ link' = "closed"
  /\ setClient([onDisconnected(client) EXCEPT !.connected = FALSE])
  /\ drops' = Min(drops + 1, maxReconnectAttempts + 1)
  /\ phase' = "exit0"
  /\ UNCHANGED <<storeVars, result, timerConnects, lastConnect, password, toolVars>>

\* client.disconnect() rejects: disconnect() rethrows, nothing catches it in the
\* signal handler
DisconnectRejected ==
  /\ phase = "stopping"
  /\ link = "closing"
  /\ phase' = "exit1"
  /\ link' \in {"open", "closed"}
  /\ UNCHANGED <<storeVars, result, clientVars, timerConnects, drops, lastConnect, password, toolVars>>

\* main() -> initCli() -> the 'send' command: await twitchClient.connect()
CliStart ==
  /\ phase = "init"
  /\ phase' = "cliConnecting"
  /\ link' = IF connectCallsTransport(client) THEN "connecting" ELSE link
  /\ lastConnect' = IF connectCallsTransport(client) THEN "transport" ELSE "returned"
  /\ UNCHANGED <<storeVars, result, clientVars, timerConnects, drops, password, toolVars>>

\* the 'send' command: await twitchClient.sendMessage(channel, message); a throw
\* lands in the command's catch, which exits 1
CliSendMessage(channel, text) ==
  /\ phase = "cliConnected"
  /\ IF IsSome(sendMessageGuard(client))
     THEN phase' = "exit1" /\ UNCHANGED requests
     ELSE /\ phase' = "cliSending"
          /\ requests' = Append(requests, [op |-> "say", channel |-> channelName(channel),
                                           text |-> text, tool |-> "cli",
                                           args |-> [channel |-> channel, text |-> text]])
  /\ UNCHANGED <<storeVars, result, clientVars, transportVars, lastCall>>

\* the transport answers the say of the 'send' command
CliSendResolved ==
  /\ phase = "cliSending"
  /\ phase' = "cliSent"
  /\ requests' = <<>>
  /\ UNCHANGED <<storeVars, result, clientVars, transportVars, lastCall>>

CliSendRejected ==
  /\ phase = "cliSending"
  /\ phase' = "exit1"
  /\ requests' = <<>>
  /\ UNCHANGED <<storeVars, result, clientVars, transportVars, lastCall>>

\* the 'send' command: await twitchClient.disconnect(), with no process.exit after it
CliDisconnect ==
  /\ phase = "cliSent"
  /\ IF disconnectCallsTransport(client)
     THEN /\ phase' = "cliStopping"
          /\ link' = IF link = "open" THEN "closing" ELSE link
     ELSE /\ phase' = "cliSkipped"
          /\ link' = link
  /\ UNCHANGED <<storeVars, result, clientVars, timerConnects, drops, lastConnect, password, toolVars>>

\* the transport closes the session: 'disconnected' is emitted, client.disconnect()
\* resolves, disconnect() sets connected = false and the command's action returns
CliCloseCompleted ==
  /\ phase = "cliStopping"
  /\ link = "closing"
  /\ link' = "closed"
  /\ setClient([onDisconnected(client) EXCEPT !.connected = FALSE])
  /\ drops' = Min(drops + 1, maxReconnectAttempts + 1)
  /\ phase' = "cliDone"
  /\ UNCHANGED <<storeVars, result, timerConnects, lastConnect, password, toolVars>>

\* client.disconnect() rejects: the command's catch exits 1
CliDisconnectRejected ==
  /\ phase = "cliStopping"
  /\ link = "closing"
  /\ phase' = "exit1"
  /\ link' \in {"open", "closed"}
  /\ UNCHANGED <<storeVars, result, clientVars, timerConnects, drops, lastConnect, password, toolVars>>

\* the command is done, no timer is pending and no session is open or being
\* opened: nothing keeps the event loop alive
CliIdleExit ==
  /\ phase \in {"cliDone", "cliSkipped"}
  /\ timers = 0
  /\ link = "closed"
  /\ phase' = "exit0"
  /\ UNCHANGED <<storeVars, result, clientVars, transportVars, toolVars>>

\* the newest timestamp in the store: new Date() does not run backwards here
RECURSIVE maxTs(_)
maxTs(msgs) == IF msgs = <<>> THEN 0 ELSE Max(Head(msgs).timestamp, maxTs(Tail(msgs)))

\* the transport delivers a chat message; the handler does not look at this.connected,
\* and the transport may deliver while the session is still being established
EvMessage(channel, shape, text, self, t) ==
  /\ Live
  /\ link \in {"connecting", "open", "closing"}
  /\ t >= maxTs(flat(mapValues(messages)))
  /\ LET userstate == [id |-> IF shape.hasId THEN Some(nextId) ELSE None,
                       displayName |-> shape.displayName, username |-> shape.username]
     IN /\ messages' = onMessage(messages, channel, userstate, text, self, t, nextId)
        /\ arrivals' = IF self THEN arrivals
                       ELSE logArrival(arrivals, chatMessage(channel, userstate, text, t, nextId))
  /\ nextId' = IF self THEN nextId ELSE nextId + 1
  /\ UNCHANGED <<result, clientVars, transportVars, phase, toolVars>>

\* the transport reports a join or a part
EvJoin(channel, self) ==
  /\ Live
  /\ link = "open"
  /\ setClient(onJoin(client, channel, self))
  /\ UNCHANGED <<storeVars, result, transportVars, phase, toolVars>>

EvPart(channel, self) ==
  /\ Live
  /\ link = "open"
  /\ setClient(onPart(client, channel, self))
  /\ UNCHANGED <<storeVars, result, transportVars, phase, toolVars>>

\* the sendMessage tool is called: twitchClient.sendMessage either throws at once or
\* hands one say to the transport and awaits it
ToolSendMessage(channel, text) ==
  /\ Serving
  /\ LET args == [channel |-> channel, text |-> text]
         thrown == sendMessageGuard(client)
     IN IF IsSome(thrown)
        THEN /\ lastCall' = settledCall("sendMessage", args, Failure(Val(thrown)),
                                        sendMessageTool(args, Failure(Val(thrown))))
             /\ UNCHANGED requests
        ELSE /\ Len(requests) < MaxCalls
             /\ requests' = Append(requests, [op |-> "say", channel |-> channelName(channel),
                                              text |-> text, tool |-> "sendMessage",
                                              args |-> args])
             /\ UNCHANGED lastCall
  /\ UNCHANGED <<storeVars, result, clientVars, transportVars, phase>>

\* the joinChannel tool with the guard sendMessage has: nothing is handed to the
\* transport while the client is not connected
ToolJoinChannelGuarded(channel) ==
  /\ Serving
  /\ Len(requests) < MaxCalls
  /\ IF connected
     THEN /\ requests' = Append(requests, [op |-> "join", channel |-> channelName(channel),
                                           text |-> <<>>, tool |-> "joinChannel",
                                           args |-> [channel |-> channel]])
          /\ UNCHANGED lastCall
     ELSE /\ lastCall' = settledCall("joinChannel", [channel |-> channel],
                                     Failure("Not connected to Twitch IRC"),
                                     joinChannelTool([channel |-> channel],
                                                     Failure("Not connected to Twitch IRC")))
          /\ UNCHANGED requests
  /\ UNCHANGED <<storeVars, result, clientVars, transportVars, phase>>

\* the joinChannel tool is called: twitchClient.joinChannel hands one join to the
\* transport, connected or not, and awaits it
ToolJoinChannel(channel) ==
  /\ Serving
  /\ Len(requests) < MaxCalls
  /\ requests' = Append(requests, [op |-> "join", channel |-> channelName(channel),
                                   text |-> <<>>, tool |-> "joinChannel",
                                   args |-> [channel |-> channel]])
  /\ UNCHANGED <<storeVars, result, clientVars, transportVars, phase, lastCall>>

\* twitchClient.leaveChannel called on the client: it hands one part to the
\* transport, connected or not, and awaits it
LeaveChannel(channel) ==
  /\ Live
  /\ Len(requests) < MaxCalls
  /\ requests' = Append(requests, [op |-> "part", channel |-> channelName(channel),
                                   text |-> <<>>, tool |-> "leaveChannel",
                                   args |-> [channel |-> channel]])
  /\ UNCHANGED <<storeVars, result, clientVars, transportVars, phase, lastCall>>

removeAt(seq, i) == SubSeq(seq, 1, i - 1) \o SubSeq(seq, i + 1, Len(seq))

\* a client method awaited by its caller: it resolves, or logs and rethrows
methodSettles(outcome) == IF outcome.ok THEN Resolved(None) ELSE Rejected(outcome.error)

\* the handler that awaits a transport request, resumed with its outcome
resume(request, outcome) ==
  IF request.tool = "sendMessage" THEN sendMessageTool(request.args, outcome)
  ELSE IF request.tool = "joinChannel" THEN joinChannelTool(request.args, outcome)
  ELSE methodSettles(outcome)

\* the transport answers a request: the awaiting handler returns its envelope
RequestResolved(i) ==
  /\ Live
  /\ i \in 1..Len(requests)
  /\ lastCall' = settledCall(requests[i].tool, requests[i].args, Success(<<>>),
                             resume(requests[i], Success(<<>>)))
  /\ requests' = removeAt(requests, i)
  /\ UNCHANGED <<storeVars, result, clientVars, transportVars, phase>>

\* the transport fails a request: the client method logs and rethrows, the handler
\* catches
RequestRejected(i) ==
  /\ Live
  /\ i \in 1..Len(requests)
  /\ lastCall' = settledCall(requests[i].tool, requests[i].args,
                             Failure("No response from Twitch."),
                             resume(requests[i], Failure("No response from Twitch.")))
  /\ requests' = removeAt(requests, i)
  /\ UNCHANGED <<storeVars, result, clientVars, transportVars, phase>>

ToolGetRecentMessages(args) ==
  /\ Serving
  /\ LET limit == IF IsSome(args.limit) THEN Val(args.limit) ELSE DefaultLimit
         outcome == Success(getRecentMessages(messages, args.channel, limit))
     IN lastCall' = settledCall("getRecentMessages", args, outcome,
                                getRecentMessagesTool(args, outcome))
  /\ UNCHANGED <<storeVars, result, clientVars, transportVars, phase, requests>>

ToolFilterMessages(args) ==
  /\ Serving
  /\ LET filter == toolFilter(args)
         outcome == Success(filterMessages(messages, filter))
         after == filterMessagesStore(messages, filter)
     IN /\ lastCall' = settledCall("filterMessages", args, outcome,
                         filterMessagesTool(args, outcome, getMessageCount(after, args.channel)))
        /\ messages' = after
  /\ UNCHANGED <<arrivals, nextId, result, clientVars, transportVars, phase, requests>>

ToolGetAllMessages(args) ==
  /\ Serving
  /\ LET outcome == Success(getAllMessages(messages, args.channel))
     IN lastCall' = settledCall("getAllMessages", args, outcome,
                                getAllMessagesTool(args, outcome))
  /\ UNCHANGED <<storeVars, result, clientVars, transportVars, phase, requests>>

ToolGetStatus ==
  /\ Serving
  /\ LET outcome == Success([connected |-> connected, channels |-> channels])
     IN lastCall' = settledCall("getStatus", <<>>, outcome, getStatusTool(outcome))
  /\ UNCHANGED <<storeVars, result, clientVars, transportVars, phase, requests>>

\* what the transport and the callers of the tools send
EventChannels == {<<"#", "f">>, <<"#", "b">>}
JoinedChannels == {<<"#", "f">>}
UserShapes ==
  { [hasId |-> TRUE, displayName |-> Some(<<"A", "n">>), username |-> Some(<<"a", "n">>)],
    [hasId |-> FALSE, displayName |-> None, username |-> None] }
EventTexts == {<<"h", "i">>}
EventTimes == {1, 2}
SendChannels == {<<"f">>, <<"#", "F">>}
JoinChannels == {<<"f">>}

DateStrings == {[kind |-> "iso", t |-> 2], [kind |-> "junk"], [kind |-> "empty"]}
noToolArgs ==
  [channel |-> None, username |-> None, contains |-> None, since |-> None, until |-> None,
   page |-> None, pageSize |-> None]
RecentToolArgs ==
  { [channel |-> <<"F">>, limit |-> None], [channel |-> <<"f">>, limit |-> Some(0)] }
FilterToolArgs ==
  { noToolArgs,
    [noToolArgs EXCEPT !.since = Some([kind |-> "junk"])],
    [noToolArgs EXCEPT !.channel = Some(<<"f">>), !.until = Some([kind |-> "junk"])],
    [noToolArgs EXCEPT !.since = Some([kind |-> "iso", t |-> 2]), !.until = Some([kind |-> "empty"]),
                       !.page = Some(0), !.pageSize = Some(1)] }
\* what the filterMessages tool is called with once several messages are stored
ChatFilterArgs ==
  { noToolArgs,
    [noToolArgs EXCEPT !.pageSize = Some(1)],
    [noToolArgs EXCEPT !.channel = Some(<<"f">>), !.page = Some(1), !.pageSize = Some(1)] }
\* the chat messages delivered while the whole server runs: one with a full
\* userstate, one with an empty userstate on another channel, one of the bot's own
ChatEvents ==
  { [channel |-> <<"#", "f">>, shape |-> [hasId |-> TRUE, displayName |-> Some(<<"A", "n">>),
                                           username |-> Some(<<"a", "n">>)],
     text |-> <<"h", "i">>, self |-> FALSE, t |-> 1],
    [channel |-> <<"#", "b">>, shape |-> [hasId |-> FALSE, displayName |-> None,
                                           username |-> None],
     text |-> <<"h", "i">>, self |-> FALSE, t |-> 2],
    [channel |-> <<"#", "f">>, shape |-> [hasId |-> TRUE, displayName |-> Some(<<"A", "n">>),
                                           username |-> Some(<<"a", "n">>)],
     text |-> <<"h", "i">>, self |-> TRUE, t |-> 2] }
AllToolArgs == { [channel |-> None], [channel |-> Some(<<"f">>)] }

\* ----------------------------------------------------------- initial state

\* config.twitch.channel: TWITCH_CHANNEL, '' when unset
\* the environments the process is started in: TWITCH_CHANNEL unset or '#F', and
\* TWITCH_OAUTH_TOKEN written as 't' or as 'oauth:t'
Configs ==
  { [channel |-> <<>>, oauthToken |-> <<"t">>],
    [channel |-> <<"#", "F">>, oauthToken |-> <<"o", "a", "u", "t", "h", ":", "t">>] }
ConfigChannels == {cfg.channel : cfg \in Configs}

\* identity: { username, password: oauthToken } in the TwitchClient constructor
identityPassword(oauthToken) == oauthToken

Init ==
  /\ messages = <<>>
  /\ arrivals = <<>>
  /\ nextId = 1
  /\ result = NoResult
  /\ connected = FALSE
  /\ reconnectAttempts = 0
  /\ \E cfg \in Configs :
       /\ channels = IF Len(cfg.channel) > 0 THEN {toLowerCase(cfg.channel)} ELSE {}
       /\ password = identityPassword(cfg.oauthToken)
  /\ timers = 0
  /\ link = "closed"
  /\ timerConnects = 0
  /\ drops = 0
  /\ lastConnect = "none"
  /\ phase = "init"
  /\ requests = <<>>
  /\ lastCall = [tool |-> "none"]

Next ==
  \/ Start
  \/ EvConnected
  \/ EvDisconnected
  \/ TransportRetry
  \/ TimerFire
  \/ ServerStarted
  \/ Signal
  \/ CloseCompleted
  \/ DisconnectRejected
  \/ \E e \in ChatEvents :
        nextId <= MaxEvents /\ EvMessage(e.channel, e.shape, e.text, e.self, e.t)
  \/ \E c \in JoinedChannels, self \in BOOLEAN : EvJoin(c, self)
  \/ \E c \in JoinedChannels, self \in BOOLEAN : EvPart(c, self)
  \/ \E c \in SendChannels, x \in EventTexts : ToolSendMessage(c, x)
  \/ \E c \in JoinChannels : ToolJoinChannel(c)
  \/ \E i \in 1..MaxCalls : RequestResolved(i)
  \/ \E i \in 1..MaxCalls : RequestRejected(i)
  \/ \E a \in RecentToolArgs : ToolGetRecentMessages(a)
  \/ \E a \in FilterToolArgs : ToolFilterMessages(a)
  \/ \E a \in AllToolArgs : ToolGetAllMessages(a)
  \/ ToolGetStatus

Spec == Init /\ [][Next]_vars

\* the channel operations of the client: the joinChannel tool and leaveChannel called
\* on the client, while the session comes and goes
LeaveChannels == {<<"f">>, <<"#", "F">>}

ChannelNext ==
  \/ Start
  \/ EvConnected
  \/ EvDisconnected
  \/ TimerFire
  \/ ServerStarted
  \/ \E c \in JoinChannels : ToolJoinChannel(c)
  \/ \E c \in LeaveChannels : LeaveChannel(c)
  \/ \E i \in 1..MaxCalls : RequestResolved(i)
  \/ \E i \in 1..MaxCalls : RequestRejected(i)
  \/ \E c \in JoinedChannels, self \in BOOLEAN : EvJoin(c, self)
  \/ \E c \in JoinedChannels, self \in BOOLEAN : EvPart(c, self)

ChannelSpec == Init /\ [][ChannelNext]_vars

\* the connection side alone, for what eventually happens. The event loop runs a due
\* setTimeout callback as long as the process lives, and the transport settles every
\* attempt to open a session by 'connected' or by 'disconnected'.
AttemptSettles == link = "connecting" /\ (EvConnected \/ EvDisconnected)

ReconnectNext ==
  \/ Start
  \/ EvConnected
  \/ EvDisconnected
  \/ TransportRetry
  \/ TimerFire
  \/ ServerStarted
  \/ Signal
  \/ CloseCompleted
  \/ DisconnectRejected
  \/ \E c \in JoinedChannels, self \in BOOLEAN : EvJoin(c, self)
  \/ \E c \in JoinedChannels, self \in BOOLEAN : EvPart(c, self)
  \/ ToolGetStatus

ReconnectSpec ==
  Init /\ [][ReconnectNext]_vars /\ WF_vars(TimerFire) /\ WF_vars(AttemptSettles)

\* the chat side alone: the session comes up, messages arrive until channels
\* overflow, and the filterMessages tool reads them
ChatNext ==
  \/ Start
  \/ EvConnected
  \/ EvDisconnected
  \/ ServerStarted
  \/ \E c \in EventChannels, u \in UserShapes, x \in EventTexts, self \in BOOLEAN,
        t \in EventTimes : nextId <= MaxAdds /\ EvMessage(c, u, x, self, t)
  \/ \E a \in ChatFilterArgs : ToolFilterMessages(a)
  \/ \E a \in RecentToolArgs : ToolGetRecentMessages(a)
  \/ \E a \in AllToolArgs : ToolGetAllMessages(a)

ChatSpec == Init /\ [][ChatNext]_vars

\* the command-line entry: twitch-cli send <channel> <message>
CliNext ==
  \/ CliStart
  \/ EvConnected
  \/ EvDisconnected
  \/ TransportRetry
  \/ TimerFire
  \/ \E c \in SendChannels, x \in EventTexts : CliSendMessage(c, x)
  \/ CliSendResolved
  \/ CliSendRejected
  \/ CliDisconnect
  \/ CliCloseCompleted
  \/ CliDisconnectRejected
  \/ CliIdleExit

CliSpec == Init /\ [][CliNext]_vars

\* ------------------------------------ the MessageStore class, driven directly

StoreNext ==
  \/ \E tpl \in MessagePool : AddMessage(tpl)
  \/ \E c \in ChannelNames, l \in Limits : GetRecentMessages(c, l)
  \/ \E c \in OptChannels : GetAllMessages(c)
  \/ \E f \in FilterArgs : FilterMessages(f)
  \/ \E c \in OptChannels : GetMessageCount(c)
  \/ \E c \in OptChannels : ClearMessages(c)

\* no default channel is configured in these runs
StoreInit == Init /\ channels = {}

StoreSpec == StoreInit /\ [][StoreNext]_vars

\* the store as filterMessages sees it: filled, cleared and filtered
FilterNext ==
  \/ \E tpl \in MessagePool : AddMessage(tpl)
  \/ \E f \in FilterProbes : FilterMessages(f)
  \/ \E c \in OptChannels : ClearMessages(c)

FilterSpec == StoreInit /\ [][FilterNext]_vars

\* addMessage alone
AddNext == \E tpl \in MessagePool : AddMessage(tpl)

AddSpec == StoreInit /\ [][AddNext]_vars

\* two channels filled side by side and cleared one at a time
IsolatedPool ==
  { [channel |-> <<"F">>, username |-> <<"b">>, message |-> <<"h", "i">>, timestamp |-> 2],
    [channel |-> <<"b">>, username |-> <<"b">>, message |-> <<"h", "i">>, timestamp |-> 1] }

IsolationNext ==
  \/ \E tpl \in IsolatedPool : AddIsolated(tpl)
  \/ \E c \in OptChannels : ClearMessages(c)

IsolationSpec == StoreInit /\ [][IsolationNext]_vars

\* ===================================================================== claims

LastK(seq, k) == SubSeq(seq, Len(seq) - k + 1, Len(seq))
Range(seq) == {seq[i] : i \in 1..Len(seq)}
arrived(k) == IF mapHas(arrivals, k) THEN Val(mapGet(arrivals, k)) ELSE <<>>
isSortedByTs(seq) ==
  \A i, j \in 1..Len(seq) : i < j => seq[i].timestamp <= seq[j].timestamp
unpaginated(c) == withPage(c, None, None)

\* C1: every channel history holds at most maxMessagesPerChannel messages, the
\* global count is at most channels x maxMessagesPerChannel, and what a read
\* returns is never longer than that (a read of one channel: the bound; a read
\* across channels: channels x bound).
C1_HistoryBounded ==
  /\ \A i \in 1..Len(messages) : Len(messages[i].v) <= maxMessagesPerChannel
  /\ getMessageCount(messages, None) <= Len(messages) * maxMessagesPerChannel
  /\ result.op = "getRecentMessages" => Len(result.value) <= maxMessagesPerChannel
  /\ result.op = "getAllMessages" =>
       Len(result.value) <= IF Truthy(result.channel) THEN maxMessagesPerChannel
                            ELSE Len(messages) * maxMessagesPerChannel
  /\ result.op = "filterMessages" =>
       Len(result.value) <= IF Truthy(result.filter.channel) THEN maxMessagesPerChannel
                            ELSE Len(messages) * maxMessagesPerChannel
  /\ result.op = "getMessageCount" =>
       result.value <= IF Truthy(result.channel) THEN maxMessagesPerChannel
                       ELSE Len(messages) * maxMessagesPerChannel

\* a channel that has evicted, read back in full
C1_Witness ==
  /\ result.op = "getAllMessages"
  /\ Truthy(result.channel)
  /\ Len(result.value) = maxMessagesPerChannel
  /\ Len(arrived(toLowerCase(Val(result.channel)))) > maxMessagesPerChannel

\* C2: after each addMessage of a run of addMessage calls, a channel that has had n
\* messages added holds exactly the last min(n, maxMessagesPerChannel) of them, in
\* arrival order.
C2_RetainsMostRecent ==
  /\ Len(messages) = Len(arrivals)
  /\ \A i \in 1..Len(arrivals) :
       LET k == arrivals[i].k
           n == Len(arrivals[i].v)
       IN /\ mapHas(messages, k)
          /\ Val(mapGet(messages, k)) = LastK(arrivals[i].v, Min(n, maxMessagesPerChannel))

\* more messages were added to a channel than it may hold
C2_Witness ==
  \E i \in 1..Len(arrivals) :
    /\ Len(arrivals[i].v) > maxMessagesPerChannel
    /\ Len(Val(mapGet(messages, arrivals[i].k))) = maxMessagesPerChannel

\* C7: getRecentMessages(channel, limit), limit >= 0, returns exactly the
\* min(limit, n) most recently added of the n retained messages of the channel,
\* oldest first, and never more than limit messages.
C7_RecentIsLastLimit ==
  result.op = "getRecentMessages" =>
    LET k == toLowerCase(result.channel)
        n == Len(channelArray(messages, result.channel))
        retained == LastK(arrived(k), n)
    IN /\ result.value = LastK(retained, Min(result.limit, n))
       /\ Len(result.value) <= result.limit

\* the pages of a filter, fetched one call after the other until one is empty
RECURSIVE pagesFrom(_, _, _, _)
pagesFrom(map, c, pageSize, page) ==
  LET f == withPage(c, Some(page), Some(pageSize))
      got == filterMessages(map, f)
  IN IF got = <<>> THEN <<>>
     ELSE got \o pagesFrom(filterMessagesStore(map, f), c, pageSize, page + 1)

\* C8: for every store state, all criteria and every whole pageSize >= 1, the pages
\* 0, 1, 2, ... up to the first empty one, concatenated, are the unpaginated result
\* of the same filter: same messages, same order, no duplicate, no gap.
C8_PagesConcatenate ==
  \A c \in Criteria : \A pageSize \in 1..MaxPageSize :
    pagesFrom(messages, c, pageSize, 0) = filterMessages(messages, unpaginated(c))

\* a second page that is not empty has been returned
C8_Witness ==
  /\ result.op = "filterMessages"
  /\ result.filter.page = Some(1)
  /\ result.filter.pageSize = Some(1)
  /\ Len(result.value) = 1
  /\ Len(filterMessages(messages, unpaginated(result.filter))) >= 3

\* what the claim says of one message, criterion by criterion
matchesUsername(msg, c) ==
  IsSome(c.username) => includes(toLowerCase(msg.username), toLowerCase(Val(c.username)))
matchesContains(msg, c) ==
  IsSome(c.contains) => includes(toLowerCase(msg.message), toLowerCase(Val(c.contains)))
matchesSince(msg, c) ==
  IsSome(c.since) => (Val(c.since).valid /\ msg.timestamp >= Val(c.since).t)
matchesUntil(msg, c) ==
  IsSome(c.until) => (Val(c.until).valid /\ msg.timestamp <= Val(c.until).t)

onlyUsername(c) == [noCriteria(c.channel) EXCEPT !.username = c.username]
onlyContains(c) == [noCriteria(c.channel) EXCEPT !.contains = c.contains]
onlySince(c) == [noCriteria(c.channel) EXCEPT !.since = c.since]
onlyUntil(c) == [noCriteria(c.channel) EXCEPT !.until = c.until]
resultSet(c) == Range(filterMessages(messages, unpaginated(c)))

\* C9: without pagination filterMessages returns exactly the messages of
\* getAllMessages(filter.channel) that satisfy every supplied criterion (username and
\* text substring without regard to case, since and until inclusive), each once,
\* sorted ascending by timestamp: the intersection of the per-criterion results.
C9_FilterIsIntersection ==
  \A c \in Criteria :
    LET got == filterMessages(messages, unpaginated(c))
        want == { msg \in Range(getAllMessages(messages, c.channel)) :
                    /\ matchesUsername(msg, c) /\ matchesContains(msg, c)
                    /\ matchesSince(msg, c) /\ matchesUntil(msg, c) }
    IN /\ Range(got) = want
       /\ Len(got) = Cardinality(want)
       /\ isSortedByTs(got)
       /\ Range(got) = resultSet(onlyUsername(c)) \cap resultSet(onlyContains(c))
                          \cap resultSet(onlySince(c)) \cap resultSet(onlyUntil(c))

\* a filter with two criteria has returned less than either criterion alone gives
C9_Witness ==
  /\ result.op = "filterMessages"
  /\ IsSome(result.filter.username) /\ IsSome(result.filter.since)
  /\ ~IsSome(result.filter.page)
  /\ Len(result.value) >= 1
  /\ Len(result.value) < Cardinality(resultSet(onlyUsername(result.filter)))
  /\ Len(result.value) < Cardinality(resultSet(onlySince(result.filter)))
  /\ \E msg \in Range(result.value) : msg.timestamp = Val(result.filter.since).t

\* ------------------------------------------------------------------ C3

\* a 'disconnected' event reaches the handlers, whoever caused it
Disconnected == EvDisconnected \/ CloseCompleted

\* C3: once maxReconnectAttempts consecutive 'disconnected' events have arrived with
\* no 'connected' event between them, reconnectAttempts is at the cap and a later
\* 'disconnected' event schedules no timer and leaves the counter at the cap; the
\* counter leaves the cap only by a 'connected' event, which resets it to 0; and below
\* the cap a 'disconnected' event schedules one timer and counts one attempt.
C3_NoRescheduleAtCap ==
  /\ [](drops >= maxReconnectAttempts => reconnectAttempts = maxReconnectAttempts)
  /\ [][Disconnected /\ drops >= maxReconnectAttempts
          => timers' = timers /\ reconnectAttempts' = maxReconnectAttempts]_vars
  /\ [][reconnectAttempts = maxReconnectAttempts /\ reconnectAttempts' # reconnectAttempts
          => EvConnected /\ reconnectAttempts' = 0]_vars
  /\ [][EvDisconnected /\ drops < maxReconnectAttempts
          => timers' = timers + 1 /\ reconnectAttempts' = reconnectAttempts + 1]_vars

\* a 'disconnected' event has arrived after the cap was reached, and nothing is scheduled
C3_Witness ==
  /\ drops = maxReconnectAttempts + 1
  /\ reconnectAttempts = maxReconnectAttempts
  /\ timers = 0

\* ------------------------------------------------------------------ C4

\* C4: the explicit disconnect() of a connected client leaves it disconnected, and the
\* 'disconnected' event it provokes creates no reconnect timer and does not count a
\* reconnect attempt.
C4_ExplicitDisconnectSchedulesNothing ==
  [][CloseCompleted
       => ~connected' /\ timers' = timers /\ reconnectAttempts' = reconnectAttempts]_vars

\* ------------------------------------------------------------------ C5

ToolNames ==
  {"sendMessage", "joinChannel", "getRecentMessages", "filterMessages", "getAllMessages",
   "getStatus"}

wellFormed(envelope) ==
  /\ DOMAIN envelope = {"content", "isError"}
  /\ Len(envelope.content) = 1
  /\ envelope.content[1].type = "text"
  /\ envelope.isError \in {None, Some(TRUE)}

\* C5: every settled tool call resolved, to an envelope of one text block whose isError
\* is true exactly when the operation under the handler failed.
C5_ToolsResolveToEnvelope ==
  lastCall.tool # "none" =>
    /\ lastCall.tool \in ToolNames
    /\ lastCall.settlement.settled = "resolved"
    /\ wellFormed(lastCall.settlement.envelope)
    /\ (lastCall.settlement.envelope.isError = Some(TRUE)) <=> ~lastCall.ok

\* a call whose operation failed has settled while the session was down
C5_Witness ==
  /\ lastCall.tool = "joinChannel"
  /\ ~lastCall.ok
  /\ lastCall.settlement.settled = "resolved"
  /\ lastCall.settlement.envelope.isError = Some(TRUE)
  /\ link # "open"

\* ------------------------------------------------------------------ C6

notConnectedEnvelope ==
  errorEnvelope("Error sending message", "Not connected to Twitch IRC")

\* C6: sendMessage on a client that is not connected hands nothing to the transport,
\* changes no field of the client or the store, and the tool answers with the
\* not-connected error; on a connected client it hands exactly one say to the transport,
\* for the channel with its '#'; and when the transport fails that say, the tool
\* answers with an isError envelope carrying the transport's message.
C6_SendMessageGuarded ==
  /\ [][\A c \in SendChannels, x \in EventTexts :
          ToolSendMessage(c, x) =>
            IF ~connected
            THEN /\ requests' = requests
                 /\ UNCHANGED <<storeVars, clientVars, transportVars>>
                 /\ lastCall'.tool = "sendMessage"
                 /\ ~lastCall'.ok
                 /\ lastCall'.settlement = Resolved(notConnectedEnvelope)
            ELSE /\ Len(requests') = Len(requests) + 1
                 /\ SubSeq(requests', 1, Len(requests)) = requests
                 /\ requests'[Len(requests')].op = "say"
                 /\ requests'[Len(requests')].channel = <<"#">> \o stripHash(c)
                 /\ requests'[Len(requests')].text = x
                 /\ UNCHANGED <<storeVars, clientVars, transportVars, lastCall>>]_vars
  /\ [][\A i \in 1..MaxCalls :
          RequestRejected(i) /\ requests[i].tool = "sendMessage" =>
            /\ lastCall'.settlement.settled = "resolved"
            /\ lastCall'.settlement.envelope.isError = Some(TRUE)
            /\ lastCall'.settlement.envelope.content[1].text.message
                 = "No response from Twitch."]_vars

\* a send was refused while disconnected with one say of an earlier call still pending
C6_Witness ==
  /\ lastCall.tool = "sendMessage"
  /\ lastCall.settlement = Resolved(notConnectedEnvelope)
  /\ ~connected
  /\ Len(requests) = 1
  /\ requests[1].op = "say"

\* ------------------------------------------------------------------ C10

unparsable(str) == IsSome(str) /\ Val(str).kind = "junk"

\* C10: a filterMessages call whose since or until cannot be parsed as a timestamp
\* is answered with an isError envelope.
C10_UnparsableDateIsError ==
  lastCall.tool = "filterMessages"
    /\ (unparsable(lastCall.args.since) \/ unparsable(lastCall.args.until))
    => lastCall.settlement.envelope.isError = Some(TRUE)

\* ------------------------------------------------------------------ C11

\* C11: the set of joined channels is empty until the transport has acknowledged a
\* join: nothing is delivered before the session is established for the first time,
\* so until then the set holds no channel.
C11_EmptyBeforeAnyJoinAck ==
  phase \in {"init", "connecting"} => channels = {}

\* ------------------------------------------------------------------ C12

\* a step in which connect() is called: by initMcpServer, or by a reconnect timer
ConnectCalled == Start \/ TimerFire

\* C12: connect() on a connected client hands nothing to the transport and changes no
\* field of the client, the store or the tools; on a client that is not connected it
\* starts a transport connect. And every 'connected' event leaves connected true and
\* reconnectAttempts 0.
C12_ConnectNoOpWhenConnected ==
  /\ [][ConnectCalled =>
          IF connected
          THEN /\ lastConnect' = "returned"
               /\ UNCHANGED <<link, timerConnects, drops, connected, reconnectAttempts,
                              channels, storeVars, toolVars>>
          ELSE /\ lastConnect' = "transport"
               /\ link' = "connecting"
               /\ UNCHANGED <<connected, reconnectAttempts, channels>>]_vars
  /\ [][EvConnected => connected' /\ reconnectAttempts' = 0]_vars

\* a reconnect timer has called connect() on a client the transport had already
\* reconnected: the call returned and the session is still open
C12_Witness ==
  /\ lastConnect = "returned"
  /\ connected
  /\ link = "open"
  /\ reconnectAttempts = 0

\* ------------------------------------------------------------------ C13

stored(map, k) == IF mapHas(map, k) THEN Val(mapGet(map, k)) ELSE <<>>
keys(map) == {map[i].k : i \in 1..Len(map)}

\* C13: a 'message' event that is not the bot's own appends exactly one message, built
\* from the event, to the end of the history of the event's channel (name without '#',
\* lower-cased as key), dropping from the front what exceeds the bound, and leaves
\* every other history alone, whether or not the client is connected; the bot's own
\* message leaves the store as it was.
C13_MessageEventAppendsOne ==
  [][\A c \in EventChannels, u \in UserShapes, x \in EventTexts, self \in BOOLEAN,
        t \in EventTimes :
       EvMessage(c, u, x, self, t) =>
         IF self THEN messages' = messages
         ELSE LET k == toLowerCase(stripHash(c))
                  old == stored(messages, k)
                  new == stored(messages', k)
                  last == new[Len(new)]
              IN /\ Len(new) = Min(Len(old) + 1, maxMessagesPerChannel)
                 /\ new = LastK(Append(old, last), Min(Len(old) + 1, maxMessagesPerChannel))
                 /\ last.channel = stripHash(c)
                 /\ last.message = x
                 /\ last.timestamp = t
                 /\ last.username \in {<<"A", "n">>, <<"a", "n", "o", "n", "y", "m", "o", "u", "s">>}
                 /\ last \notin Range(old)
                 /\ keys(messages') = keys(messages) \cup {k}
                 /\ \A other \in keys(messages) \ {k} :
                      stored(messages', other) = stored(messages, other)]_vars

\* messages arrived before the session was established, one more than a channel
\* holds: the oldest was dropped
C13_Witness ==
  /\ ~connected
  /\ Len(arrived(<<"f">>)) = maxMessagesPerChannel + 1
  /\ stored(messages, <<"f">>) = LastK(arrived(<<"f">>), maxMessagesPerChannel)

\* ------------------------------------------------------------------ C14

\* C14: every read of the store addresses the same history whether the channel name
\* is written with or without the leading '#'.
C14_MarkerIsNormalised ==
  \A c \in ChannelNames :
    LET marked == <<"#">> \o c
    IN /\ getAllMessages(messages, Some(marked)) = getAllMessages(messages, Some(c))
       /\ getMessageCount(messages, Some(marked)) = getMessageCount(messages, Some(c))
       /\ \A l \in Limits :
            getRecentMessages(messages, marked, l) = getRecentMessages(messages, c, l)
       /\ filterMessages(messages, withPage(noCriteria(Some(marked)), None, None))
            = filterMessages(messages, withPage(noCriteria(Some(c)), None, None))

\* ------------------------------------------------------------------ C15

\* channel names nothing was stored under, besides those of ChannelNames
ReadNames == ChannelNames \cup {<<"x">>}

\* criteria with which filterMessages is asked about one channel
channelCriteria(c) ==
  { noCriteria(Some(c)),
    [noCriteria(Some(c)) EXCEPT !.username = Some(<<"N">>)],
    [noCriteria(Some(c)) EXCEPT !.since = Some(DateOf(2)), !.until = Some(DateOf(2))] }

\* C15: for a channel with no history (never written, or cleared) getRecentMessages,
\* getAllMessages and filterMessages return the empty sequence, with or without
\* pagination, and filterMessages leaves the store as it is; no read leaves an entry
\* behind: every entry of the store is a non-empty history of a channel that was
\* written since its last clear.
C15_UnknownChannelReadsEmpty ==
  /\ \A c \in ReadNames :
       ~mapHas(messages, toLowerCase(c)) =>
         /\ \A l \in Limits : getRecentMessages(messages, c, l) = <<>>
         /\ getAllMessages(messages, Some(c)) = <<>>
         /\ \A crit \in channelCriteria(c) :
              /\ filterMessages(messages, withPage(crit, None, None)) = <<>>
              /\ filterMessages(messages, withPage(crit, Some(0), Some(1))) = <<>>
              /\ filterMessagesStore(messages, withPage(crit, None, None)) = messages
  /\ \A i \in 1..Len(messages) :
       /\ Len(messages[i].v) > 0
       /\ mapHas(arrivals, messages[i].k)
  /\ (result.op = "getRecentMessages" /\ ~mapHas(messages, toLowerCase(result.channel)))
       => result.value = <<>>
  /\ (result.op = "getAllMessages" /\ Truthy(result.channel)
        /\ ~mapHas(messages, toLowerCase(Val(result.channel))))
       => result.value = <<>>

\* getAllMessages was called for a channel that has no history while another has one
C15_Witness ==
  /\ result.op = "getAllMessages"
  /\ result.channel = Some(<<"b">>)
  /\ result.value = <<>>
  /\ ~mapHas(messages, <<"b">>)
  /\ mapHas(messages, <<"f">>)

\* ------------------------------------------------------------------ C16

\* pageSize <= 0 ? 10 : pageSize
DefaultPageSize == 10

Pages == (0 - 1)..2
PageSizes == (0 - 1)..MaxPageSize

\* the elements of seq at the 0-based positions from, from + 1, ..., to - 1
window(seq, from, to) ==
  [i \in 1..Max(0, Min(to, Len(seq)) - from) |-> seq[from + i]]

\* C16: with page and pageSize both given, filterMessages returns the window
\* [p*s, p*s + s) of the sorted filtered sequence, where p is 0 for a negative page
\* and s is 10 for a page size that is not positive; with either of them absent it
\* returns the whole sorted filtered sequence.
C16_PageIsClampedWindow ==
  \A c \in Criteria :
    LET full == filterMessages(messages, unpaginated(c))
    IN /\ \A page \in Pages, pageSize \in PageSizes :
            LET p == IF page < 0 THEN 0 ELSE page
                s == IF pageSize <= 0 THEN DefaultPageSize ELSE pageSize
            IN filterMessages(messages, withPage(c, Some(page), Some(pageSize)))
                 = window(full, p * s, p * s + s)
       /\ \A page \in Pages : filterMessages(messages, withPage(c, Some(page), None)) = full
       /\ \A pageSize \in PageSizes :
            filterMessages(messages, withPage(c, None, Some(pageSize))) = full

\* page -1 with page size 0 was asked for and the whole of three messages came back
C16_Witness ==
  /\ result.op = "filterMessages"
  /\ result.filter.page = Some(0 - 1)
  /\ result.filter.pageSize = Some(0)
  /\ Len(result.value) = 3

\* ------------------------------------------------------------------ C17

\* the message lines in the text of an envelope, none when it reports an empty result
linesOf(envelope) ==
  IF "lines" \in DOMAIN envelope.content[1].text
  THEN envelope.content[1].text.lines ELSE <<>>

\* C17: a filterMessages tool call that gives a page size and omits the page is
\* answered with the first page: at most pageSize messages.
C17_OmittedPageIsFirstPage ==
  (lastCall.tool = "filterMessages"
     /\ lastCall.args.page = None
     /\ IsSome(lastCall.args.pageSize))
    => Len(linesOf(lastCall.settlement.envelope)) <= Val(lastCall.args.pageSize)

\* ------------------------------------------------------------------ C18

\* what a channel retains of its arrivals: the last maxMessagesPerChannel of them
retained(k) == LastK(arrived(k), Min(Len(arrived(k)), maxMessagesPerChannel))

\* C18: getAllMessages(channel) returns the retained messages of the channel in the
\* order they arrived; getAllMessages() returns every retained message of every
\* channel exactly once, in ascending order of timestamp.
C18_AllMessagesIsRetainedHistory ==
  /\ \A c \in ChannelNames :
       getAllMessages(messages, Some(c)) = retained(toLowerCase(c))
  /\ LET all == getAllMessages(messages, None)
     IN /\ isSortedByTs(all)
        /\ Len(all) = sumLen(mapValues(messages))
        /\ Range(all) = UNION {Range(messages[i].v) : i \in 1..Len(messages)}

\* ------------------------------------------------------------------ C19

\* C19: when the first connect fails, the failure reaches initMcpServer's caller and
\* the 'disconnected' event that reports it creates no reconnect timer and counts no
\* reconnect attempt.
C19_FailedFirstConnectNotRetried ==
  [][EvDisconnected /\ phase = "connecting"
       => /\ phase' = "exit1"
          /\ timers' = timers
          /\ reconnectAttempts' = reconnectAttempts]_vars

\* ------------------------------------------------------------------ C20

Exited == phase \in {"exit0", "exit1"}

\* C20: a signal on a connected client starts the transport's disconnect and the
\* process waits; it leaves that wait only in the step in which disconnect() settles,
\* and it has never exited while the transport is still closing the session. A signal
\* on a client that is not connected exits at once, with nothing to wait for.
C20_ExitAfterDisconnect ==
  /\ [](Exited => link # "closing")
  /\ [][Signal => IF connected
                  THEN phase' = "stopping" /\ link' = "closing"
                  ELSE phase' = "exit0" /\ link' = link]_vars
  /\ [][phase = "stopping" /\ phase' # "stopping"
          => CloseCompleted \/ DisconnectRejected]_vars
  /\ [][CloseCompleted => phase' = "exit0" /\ link' = "closed" /\ ~connected']_vars

\* the process exited 0 after the transport closed the session of a client that had
\* never lost it before
C20_Witness ==
  /\ phase = "exit0"
  /\ link = "closed"
  /\ ~connected
  /\ drops = 1
  /\ lastConnect = "transport"
  /\ timers = 1

\* ------------------------------------------------------------------ C21

oauthPrefix == <<"o", "a", "u", "t", "h", ":">>

\* a token without the literal prefix 'oauth:', if it has one
tokenBody(token) ==
  IF Len(token) >= Len(oauthPrefix) /\ SubSeq(token, 1, Len(oauthPrefix)) = oauthPrefix
  THEN SubSeq(token, Len(oauthPrefix) + 1, Len(token))
  ELSE token

\* C21: the password the transport was built with is the one it would have been built
\* with had the same token been configured in its other written form, with or without
\* the prefix 'oauth:'.
C21_TokenFormIrrelevant ==
  \A cfg \in Configs :
    tokenBody(cfg.oauthToken) = tokenBody(password)
      => identityPassword(cfg.oauthToken) = password

\* ------------------------------------------------------------------ C22

\* a step that is one call of a read method of the store
StoreRead ==
  \/ \E c \in ChannelNames, l \in Limits : GetRecentMessages(c, l)
  \/ \E c \in OptChannels : GetAllMessages(c)
  \/ \E f \in FilterArgs : FilterMessages(f)
  \/ \E c \in OptChannels : GetMessageCount(c)

\* C22: a call of getRecentMessages, getAllMessages, filterMessages or getMessageCount
\* leaves every stored history the sequence it was.
C22_ReadsLeaveStoreUnchanged ==
  [][StoreRead => messages' = messages]_vars

\* ------------------------------------------------------------------ C23

\* C23: one 'disconnected' event creates at most one reconnect timer and adds at most
\* one to reconnectAttempts, and it does the one exactly when it does the other.
C23_SingleShotPerDisconnect ==
  [][Disconnected =>
       /\ timers' - timers \in {0, 1}
       /\ reconnectAttempts' - reconnectAttempts = timers' - timers
       /\ ~connected'
       /\ channels' = channels]_vars

\* the first drop of an established session: one attempt counted, one timer pending
C23_Witness ==
  /\ drops = 1
  /\ reconnectAttempts = 1
  /\ timers = 1
  /\ phase = "serving"

\* ------------------------------------------------------------------ C24

\* C24: once an explicit disconnect() has closed the session and nothing has called
\* connect() since (the 'send' command is done), the client is not connected and no
\* session is open or being opened; a reconnect timer that fires then re-establishes
\* nothing.
C24_StaysDisconnected ==
  phase = "cliDone" => ~connected /\ link = "closed"


\* ------------------------------------------------------------------ C25

\* C25: at most one client.connect() call made by connect() is unresolved at any
\* time: a reconnect timer never reaches the transport's connect while the call of an
\* earlier timer is still pending.
C25_OneConnectInFlight ==
  timerConnects <= 1


\* ------------------------------------------------------------------ C26

\* C26: reconnectAttempts always lies in 0..maxReconnectAttempts. Every reconnect
\* timer is scheduled together with one increment of the counter, which stays within
\* the cap and equals the number of 'disconnected' events since the last 'connected'
\* event; the counter goes down only in a 'connected' event. So at most
\* maxReconnectAttempts timers are scheduled between two 'connected' events.
C26_AttemptsWithinCap ==
  /\ [](reconnectAttempts \in 0..maxReconnectAttempts)
  /\ [](reconnectAttempts = Min(drops, maxReconnectAttempts))
  /\ [][timers' > timers
          => /\ timers' = timers + 1
             /\ reconnectAttempts' = reconnectAttempts + 1
             /\ reconnectAttempts' <= maxReconnectAttempts
             /\ drops' = reconnectAttempts']_vars
  /\ [][reconnectAttempts' < reconnectAttempts => EvConnected]_vars

\* the fifth timer since the session was last established has just been scheduled
C26_Witness ==
  /\ reconnectAttempts = maxReconnectAttempts
  /\ drops = maxReconnectAttempts
  /\ timers = 1
  /\ ~connected


\* ------------------------------------------------------------------ C27

Abandoned == reconnectAttempts = maxReconnectAttempts /\ timers = 0 /\ ~connected

\* C27: a 'disconnected' event below the cap counts one attempt and schedules one
\* timer; as long as the process lives a pending timer is eventually followed by a
\* timer firing (timers fire again and again, or from some point on none is pending),
\* which is a call of connect(); and after a drop the client is eventually connected again or
\* reconnection is abandoned (attempts at the cap, no timer pending, not connected),
\* unless the process exits first.
C27_ReconnectsOrGivesUp ==
  /\ [][EvDisconnected /\ reconnectAttempts < maxReconnectAttempts
          => reconnectAttempts' = reconnectAttempts + 1 /\ timers' = timers + 1]_vars
  /\ []<><<TimerFire>>_vars \/ <>[](timers = 0 \/ Exited)
  /\ [][timers' < timers => ConnectCalled /\ lastConnect' \in {"transport", "returned"}]_vars
  /\ (drops > 0) ~> (Abandoned \/ connected \/ Exited)

\* reconnection has been abandoned in a process that is still serving: five timers
\* fired, every attempt failed, and the last failure scheduled nothing
C27_Witness ==
  /\ Abandoned
  /\ drops = maxReconnectAttempts + 1
  /\ phase = "serving"
  /\ link = "closed"
  /\ lastConnect = "transport"


\* ------------------------------------------------------------------ C28

\* C28: a reconnect timer that fires on a connected client only goes away: connect()
\* returns before the transport, the session stays as it is and neither connected,
\* reconnectAttempts, the joined channels, the store nor any pending request changes.
C28_TimerOnConnectedIsNoOp ==
  [][TimerFire /\ connected
       => /\ timers' = timers - 1
          /\ lastConnect' = "returned"
          /\ UNCHANGED <<link, timerConnects, drops, connected, reconnectAttempts, channels,
                         storeVars, phase, toolVars>>]_vars

\* the session dropped and the transport restored it before the timer was due; the
\* timer has fired on the serving, connected client with a joined channel
C28_Witness ==
  /\ lastConnect = "returned"
  /\ connected
  /\ link = "open"
  /\ timers = 0
  /\ timerConnects = 0
  /\ channels # {}
  /\ phase = "serving"


\* ------------------------------------------------------------------ C29

\* C29: when the connect() of a reconnect timer is rejected the process goes on as it
\* was: the client is not connected, and the store, the joined channels, the requests
\* the tools are waiting for and the last tool result are what they were. A getStatus
\* call answered afterwards reports exactly the client's fields.
C29_FailedReconnectIsContained ==
  /\ [][EvDisconnected /\ timerConnects > 0
          => /\ phase' = phase
             /\ ~connected'
             /\ UNCHANGED <<storeVars, channels, toolVars>>]_vars
  /\ [][ToolGetStatus
          => lastCall'.settlement
               = getStatusTool(Success([connected |-> connected,
                                        channels |-> channels]))]_vars

\* the second attempt in a row has failed in the serving process while a tool call
\* is waiting for the transport: the first timer fired, its connect() reached the
\* transport and was rejected
C29_Witness ==
  /\ phase = "serving"
  /\ reconnectAttempts = 2
  /\ drops = 2
  /\ lastConnect = "transport"
  /\ link = "closed"
  /\ Len(requests) > 0


\* ------------------------------------------------------------------ C30

hashed(channel) ==
  IF Len(channel) > 0 /\ channel[1] = "#" THEN channel ELSE <<"#">> \o channel

forwards(op, channel) ==
  /\ Len(requests') = Len(requests) + 1
  /\ SubSeq(requests', 1, Len(requests)) = requests
  /\ requests'[Len(requests')].op = op
  /\ requests'[Len(requests')].channel = hashed(channel)
  /\ UNCHANGED <<clientVars, storeVars, lastCall>>

\* C30: joinChannel and leaveChannel hand exactly one join or part for the channel,
\* with its '#', to the transport, whether the client is connected or not. When the
\* transport rejects it the caller gets the error (the joinChannel tool resolves to an
\* envelope with isError true, leaveChannel's promise rejects); connected,
\* reconnectAttempts, the timers and the joined channels are unchanged.
C30_ChannelRequestsForwarded ==
  /\ [][\A c \in JoinChannels : ToolJoinChannel(c) => forwards("join", c)]_vars
  /\ [][\A c \in LeaveChannels : LeaveChannel(c) => forwards("part", c)]_vars
  /\ [][\A i \in 1..MaxCalls :
          RequestRejected(i) /\ requests[i].op \in {"join", "part"}
            => /\ UNCHANGED <<clientVars, storeVars>>
               /\ ~lastCall'.ok
               /\ requests[i].op = "join"
                    => /\ lastCall'.settlement.settled = "resolved"
                       /\ lastCall'.settlement.envelope.isError = Some(TRUE)
               /\ requests[i].op = "part"
                    => /\ lastCall'.settlement.settled = "rejected"
                       /\ lastCall'.settlement.error = "No response from Twitch."]_vars

\* a part handed to the transport while the client was not connected has been
\* rejected, and the caller of leaveChannel got the error
C30_Witness ==
  /\ lastCall.tool = "leaveChannel"
  /\ ~lastCall.ok
  /\ lastCall.settlement.settled = "rejected"
  /\ ~connected
  /\ link = "closed"
  /\ requests = <<>>


\* ------------------------------------------------------------------ C31

\* C31: disconnect() on a client that is not connected returns without a call to the
\* transport and with every field as it was. On a connected client it asks the
\* transport to close the session, once, and waits; when the transport has closed it
\* disconnect() returns with connected false; when the transport refuses, the caller
\* gets the error (the command's catch ends the process with exit code 1) and connected
\* is left as it was.
C31_DisconnectContract ==
  /\ [][CliDisconnect =>
          IF connected
          THEN /\ phase' = "cliStopping"
               /\ link = "open" /\ link' = "closing"
               /\ UNCHANGED <<clientVars, storeVars, toolVars, timerConnects, drops>>
          ELSE /\ phase' = "cliSkipped"
               /\ UNCHANGED <<clientVars, transportVars, storeVars, toolVars>>]_vars
  /\ [](phase = "cliStopping" => link = "closing" /\ connected)
  /\ [][phase = "cliStopping" /\ phase' # phase
          => CliCloseCompleted \/ CliDisconnectRejected]_vars
  /\ [][CliCloseCompleted => phase' = "cliDone" /\ ~connected' /\ link' = "closed"]_vars
  /\ [][CliDisconnectRejected => phase' = "exit1" /\ connected' = connected]_vars

\* the session had dropped when the command came to its disconnect(): the call
\* returned at once and nothing was asked of the transport
C31_Witness ==
  /\ phase = "cliSkipped"
  /\ ~connected
  /\ link # "closing"
  /\ reconnectAttempts > 0


\* ------------------------------------------------------------------ C32

\* a 'connected' or 'disconnected' event of the transport
ConnectionEvent == EvConnected \/ EvDisconnected \/ CloseCompleted

\* C32: a 'connected' or 'disconnected' event leaves the joined channels and every
\* stored history as they were: getChannels() and every read of the store give after
\* the event what they gave before it. Of the client's fields only connected,
\* reconnectAttempts and the pending timers may differ.
C32_ConnectionEventsFrame ==
  [][ConnectionEvent =>
       /\ channels' = channels
       /\ messages' = messages
       /\ \A c \in OptChannels :
            /\ getAllMessages(messages', c) = getAllMessages(messages, c)
            /\ getMessageCount(messages', c) = getMessageCount(messages, c)
       /\ \A c \in ChannelNames, l \in Limits :
            getRecentMessages(messages', c, l) = getRecentMessages(messages, c, l)
       /\ \A f \in FilterArgs :
            filterMessages(messages', f) = filterMessages(messages, f)
       /\ UNCHANGED <<toolVars, arrivals, nextId>>]_vars

\* the session of a client with a joined channel and a stored message has dropped
\* and was restored: both kinds of event have passed over the channel and the message
C32_Witness ==
  /\ connected
  /\ lastConnect = "returned"
  /\ <<"f">> \in channels
  /\ getMessageCount(messages, None) = 1
  /\ drops = 0
  /\ timers = 0


\* ------------------------------------------------------------------ C33

\* a channel name in normal form: lower case, no leading '#'
normalized(name) == name = toLowerCase(name) /\ (Len(name) = 0 \/ name[1] # "#")

\* C33: every joined channel, the configured default channel included, is held in
\* normal form, and every stored message carries as its channel the normal-form key
\* of the history that holds it.
C33_NamesNormalised ==
  /\ \A c \in channels : normalized(c)
  /\ \A i \in 1..Len(messages) :
       /\ normalized(messages[i].k)
       /\ \A j \in 1..Len(messages[i].v) : messages[i].v[j].channel = messages[i].k


\* ------------------------------------------------------------------ C34

\* the histories under every key but k are the same in both maps
othersKept(k) ==
  /\ keys(messages') \ {k} = keys(messages) \ {k}
  /\ \A other \in keys(messages) \ {k} : stored(messages', other) = stored(messages, other)

\* C34: addMessage for a channel and clearMessages(channel) leave the history of
\* every other channel the sequence it was, also when the insert drops the oldest
\* message of its own channel.
C34_HistoriesIsolated ==
  /\ [][\A tpl \in IsolatedPool : AddIsolated(tpl) =>
          /\ othersKept(toLowerCase(tpl.channel))
          /\ Len(stored(messages', toLowerCase(tpl.channel)))
               = Min(Len(stored(messages, toLowerCase(tpl.channel))) + 1,
                     maxMessagesPerChannel)]_vars
  /\ [][\A c \in ChannelNames : ClearMessages(Some(c)) =>
          /\ othersKept(toLowerCase(c))
          /\ toLowerCase(c) \notin keys(messages')]_vars

\* channel f has dropped its oldest message while channel b holds the one it got
C34_Witness ==
  /\ Len(arrived(<<"f">>)) = maxMessagesPerChannel + 1
  /\ Len(stored(messages, <<"f">>)) = maxMessagesPerChannel
  /\ Len(stored(messages, <<"b">>)) = 1
  /\ stored(messages, <<"b">>) = arrived(<<"b">>)


\* ------------------------------------------------------------------ C35

\* getMessageCount(k) summed over the keys of the Map
RECURSIVE countsFrom(_)
countsFrom(i) ==
  IF i > Len(messages) THEN 0
  ELSE getMessageCount(messages, Some(messages[i].k)) + countsFrom(i + 1)

\* C35: clearMessages(channel) leaves that channel with count 0 and every other
\* history as it was; clearMessages() leaves the global count and every channel's
\* count at 0. In every state getMessageCount() is the sum of the channels' counts
\* and the length of getAllMessages(), and a getMessageCount call returns them.
C35_ClearAndCount ==
  /\ [](/\ getMessageCount(messages, None) = countsFrom(1)
        /\ getMessageCount(messages, None) = Len(getAllMessages(messages, None)))
  /\ [](result.op = "getMessageCount" /\ result.channel = None
          => result.value = countsFrom(1))
  /\ [][\A c \in ChannelNames : ClearMessages(Some(c)) =>
          /\ getMessageCount(messages', Some(c)) = 0
          /\ \A other \in keys(messages) \ {toLowerCase(c)} :
               stored(messages', other) = stored(messages, other)
          /\ getMessageCount(messages', None)
               = getMessageCount(messages, None) - getMessageCount(messages, Some(c))]_vars
  /\ [][ClearMessages(None) =>
          /\ getMessageCount(messages', None) = 0
          /\ \A c \in ChannelNames : getMessageCount(messages', Some(c)) = 0
          /\ getAllMessages(messages', None) = <<>>]_vars

\* after three messages in two channels, channel f was cleared: its count is 0 and
\* the global count is what channel b holds
C35_Witness ==
  /\ result.op = "clearMessages"
  /\ result.channel = Some(<<"F">>)
  /\ nextId = MaxAdds + 1
  /\ getMessageCount(messages, Some(<<"f">>)) = 0
  /\ getMessageCount(messages, Some(<<"b">>)) = 1
  /\ getMessageCount(messages, None) = 1


\* ------------------------------------------------------------------ C36

\* messages are numbered in the order addMessage got them
arrivedBefore(a, b) == a.id[2] < b.id[2]

\* two messages of one channel with one timestamp stand in the order they arrived
stableWithinChannel(seq) ==
  \A i, j \in 1..Len(seq) :
    (/\ i < j
     /\ toLowerCase(seq[i].channel) = toLowerCase(seq[j].channel)
     /\ seq[i].timestamp = seq[j].timestamp) => arrivedBefore(seq[i], seq[j])

\* C36: in what getAllMessages() and filterMessages return, two messages of the same
\* channel with equal timestamps stand in the order in which they arrived, whatever
\* was read or filtered before.
C36_SortStableWithinChannel ==
  /\ stableWithinChannel(getAllMessages(messages, None))
  /\ \A f \in FilterArgs : stableWithinChannel(filterMessages(messages, f))
  /\ result.op \in {"getAllMessages", "filterMessages"} => stableWithinChannel(result.value)

\* getAllMessages() has returned two messages of channel f with one timestamp, and
\* between their arrivals a message of another timestamp arrived
C36_Witness ==
  /\ result.op = "getAllMessages"
  /\ result.channel = None
  /\ Len(result.value) = 3
  /\ \E i, j \in 1..3 :
       /\ i < j
       /\ result.value[i].channel = result.value[j].channel
       /\ result.value[i].timestamp = result.value[j].timestamp
       /\ result.value[i].id = <<"m", 1>>
       /\ result.value[j].id = <<"m", 3>>


\* ------------------------------------------------------------------ C37

\* C37: until the first connect() has succeeded no tool call is answered or handed to
\* the transport and no signal is handled. The wait for the first connect ends either
\* with 'connected', after which the tools are registered, or with its failure, which
\* takes the process to exit code 1 with no tool served; after the exit nothing runs.
C37_StartupOrder ==
  /\ [](phase \in {"init", "connecting"}
          => lastCall.tool = "none" /\ requests = <<>> /\ ~connected)
  /\ [][toolVars' # toolVars => phase \in {"serving", "stopping"}]_vars
  /\ [][Signal => phase = "serving"]_vars
  /\ [][phase = "connecting" /\ phase' # phase
          => \/ EvConnected /\ phase' = "starting" /\ connected'
             \/ EvDisconnected /\ phase' = "exit1" /\ ~connected'
                  /\ lastCall'.tool = "none" /\ requests' = <<>>]_vars
  /\ [][phase' = "starting" /\ phase' # phase => EvConnected /\ phase = "connecting"]_vars
  /\ [][phase' = "serving" /\ phase' # phase => ServerStarted /\ phase = "starting"]_vars
  /\ [][~Exited]_vars

\* the first connect failed: the process has exited 1 and no tool was ever served
C37_Witness ==
  /\ phase = "exit1"
  /\ ~connected
  /\ link = "closed"
  /\ drops = 1
  /\ lastCall.tool = "none"
  /\ requests = <<>>
  /\ messages = <<>>


\* ------------------------------------------------------------------ C38

\* the one text block of an envelope
rendering(settlement) == settlement.envelope.content[1].text

NoMessagesTexts ==
  {"No messages found in channel", "No messages found in any channel",
   "No messages found matching the filter criteria"}

\* what a read tool must answer for the messages `got` its store method returned:
\* the statement that nothing was found, or one line per message, in order
renders(settlement, got, withChannel) ==
  /\ settlement.settled = "resolved"
  /\ wellFormed(settlement.envelope)
  /\ settlement.envelope.isError = None
  /\ IF got = <<>>
     THEN /\ rendering(settlement).is \in NoMessagesTexts
          /\ "lines" \notin DOMAIN rendering(settlement)
     ELSE /\ rendering(settlement).is \notin NoMessagesTexts
          /\ Len(rendering(settlement).lines) = Len(got)
          /\ \A i \in 1..Len(got) :
               LET line == rendering(settlement).lines[i]
               IN /\ line.timestamp = got[i].timestamp
                  /\ line.username = got[i].username
                  /\ line.message = got[i].message
                  /\ withChannel => line.channel = got[i].channel

\* C38: the getRecentMessages, filterMessages and getAllMessages tools answer an
\* empty result with a success envelope whose one text block says that no messages
\* were found, and a result that is not empty with one formatted line per returned
\* message, in the order of the result.
C38_EmptyResultIsStated ==
  /\ [][\A a \in RecentToolArgs : ToolGetRecentMessages(a) =>
          renders(lastCall'.settlement,
                  getRecentMessages(messages, a.channel,
                                    IF IsSome(a.limit) THEN Val(a.limit) ELSE DefaultLimit),
                  FALSE)]_vars
  /\ [][\A a \in ChatFilterArgs : ToolFilterMessages(a) =>
          renders(lastCall'.settlement, filterMessages(messages, toolFilter(a)), TRUE)]_vars
  /\ [][\A a \in AllToolArgs : ToolGetAllMessages(a) =>
          renders(lastCall'.settlement, getAllMessages(messages, a.channel), TRUE)]_vars

\* getAllMessages has answered with the lines of several messages of two channels
C38_Witness ==
  /\ lastCall.tool = "getAllMessages"
  /\ lastCall.args.channel = None
  /\ "lines" \in DOMAIN rendering(lastCall.settlement)
  /\ Len(rendering(lastCall.settlement).lines) = MaxAdds
  /\ \E i, j \in 1..MaxAdds :
       rendering(lastCall.settlement).lines[i].channel
         # rendering(lastCall.settlement).lines[j].channel


\* ------------------------------------------------------------------ C39

\* the messages a history holds, and every key of the Map before or after a step
held(map, k) == Range(stored(map, k))
keysAround == keys(messages) \cup keys(messages')

\* C39: every stored message is, field for field, a message addMessage was given for
\* that channel, and no history holds a message twice. A message comes into a
\* history only in an addMessage step, as the message that call was given; a message
\* leaves a history only in an addMessage step on that full history or in a
\* clearMessages step. Reads, which may reorder a history, change no message.
C39_MessagesImmutable ==
  /\ [](\A i \in 1..Len(messages) :
          /\ Range(messages[i].v) \subseteq Range(arrived(messages[i].k))
          /\ Cardinality(Range(messages[i].v)) = Len(messages[i].v))
  /\ [][\A k \in keysAround :
          held(messages', k) \ held(messages, k) # {}
            => \E tpl \in MessagePool :
                 /\ AddMessage(tpl)
                 /\ k = toLowerCase(tpl.channel)
                 /\ held(messages', k) \ held(messages, k) = {mkMessage(tpl, nextId)}]_vars
  /\ [][\A k \in keysAround :
          held(messages, k) \ held(messages', k) # {}
            => \/ \E tpl \in MessagePool :
                    /\ AddMessage(tpl)
                    /\ k = toLowerCase(tpl.channel)
                    /\ Len(stored(messages, k)) = maxMessagesPerChannel
               \/ \E c \in OptChannels : ClearMessages(c)]_vars
  /\ [][result'.op \in {"getRecentMessages", "getAllMessages", "filterMessages",
                        "getMessageCount"}
          => \A k \in keysAround : held(messages', k) = held(messages, k)]_vars

\* filterMessages has put a full history into another order than the messages
\* arrived in, and the history holds the same messages as before
C39_Witness ==
  /\ result.op = "filterMessages"
  /\ Len(stored(messages, <<"f">>)) = maxMessagesPerChannel
  /\ stored(messages, <<"f">>) # retained(<<"f">>)
  /\ held(messages, <<"f">>) = Range(retained(<<"f">>))

====
